---- MODULE Spec2Model ----
(***************************************************************************)
(* Evidence integrity engine of forensics-criminology-tech-lab:            *)
(*   - SECURITY-INTEGRITY/PFEICS/main.py : session ledger, evidence        *)
(*     container, AEAD primitives, export / import of .pfeics archives     *)
(*   - EMS/EMS-human-centered/app.py     : custody chain and its verifier  *)
(*                                                                         *)
(* Hashes are modelled as injective constructors: sha(x) is the tuple      *)
(* <<"sha..", x>>, so two hashes are equal exactly when their preimages    *)
(* are.  Python's None is the empty tuple, a present value x is <<x>>.     *)
(***************************************************************************)
EXTENDS Integers, Sequences, FiniteSets, TLC

VARIABLES
    \* ---- EMS (app.py) st.session_state ----
    authenticated, current_user, current_role,
    custody_chain, access_log, denied_attempts,
    altered,            \* history: None, or <<i>> once entry i was mutated
    \* ---- PFEICS (main.py) PFEICSEnhancedSystem ----
    examiner_private_key, container, chain_events, chain_hash,
    ai_analyzing, ai_thread, after_queue,
    files,              \* the file system: path -> archive
    clock,              \* datetime.utcnow(), as a logical clock
    default_int,        \* bytes of numpy's default integer on this build
    exported,           \* history: container objects already exported
    origin,             \* history: what each archive was exported from
    last_op,            \* history: the last handler run and its outcome
    \* ---- CryptoEngine used on its own ----
    enc_bundle, dec_result,
    \* ---- SignalWatermarking used on its own ----
    wm_call,            \* the inputs of one call sequence and what it returned
    \* ---- the medical-evidence system (forensic_evidence_system.py) ----
    coc_log,            \* the entries of chain_of_custody.jsonl
    med_gui,            \* current_case_info and last_enc_bin_path
    med_disk,           \* the files written next to each evidence file
    med_tampered,       \* history: something was changed from outside
    med_op              \* history: the last handler run and its outcome

vars == <<authenticated, current_user, current_role, custody_chain,
          access_log, denied_attempts, altered,
          examiner_private_key, container, chain_events, chain_hash,
          ai_analyzing, ai_thread, after_queue, files, clock,
          default_int, exported, origin, last_op, enc_bundle, dec_result,
          wm_call, coc_log, med_gui, med_disk, med_tampered, med_op>>

emsVars == <<authenticated, current_user, current_role, custody_chain,
             access_log, denied_attempts, altered>>
sysVars == <<examiner_private_key, container, chain_events, chain_hash,
             ai_analyzing, ai_thread, after_queue, files,
             default_int, exported, origin, last_op>>
cryptoVars == <<enc_bundle, dec_result>>
wmVars == <<wm_call>>
medVars == <<coc_log, med_gui, med_disk, med_tampered, med_op>>

-----------------------------------------------------------------------------
(* Python values *)

None == <<>>
Some(x) == <<x>>
IsNone(o) == o = <<>>
IsSome(o) == o /= <<>>
Get(o) == o[1]

Ok(v) == [kind |-> "ok", value |-> Some(v)]
Raise(kind) == [kind |-> kind, value |-> None]

sha256(x) == <<"sha256", x>>
sha512(x) == <<"sha512", x>>

Last(s) == s[Len(s)]

RECURSIVE SeqSum(_)
SeqSum(s) == IF s = <<>> THEN 0 ELSE s[1] + SeqSum(Tail(s))

-----------------------------------------------------------------------------
(* Bounds *)

MaxCustody == 2     \* custody entries appended in one EMS session
MaxClock == 2       \* clock ticks of one PFEICS session
SampleCount == 80   \* samples of an acquired signal (duration_sec * fs)
DigestBytes == 1    \* bytes of the digest rendered as the fingerprint

-----------------------------------------------------------------------------
(* EMS/EMS-human-centered/app.py : role-based access control *)

ROLES == [
    investigator |-> {"view_evidence", "access_working_copy", "add_notes"},
    forensic_analyst |-> {"view_evidence", "access_working_copy", "add_notes",
                          "create_analysis", "view_chain"},
    evidence_custodian |-> {"view_evidence", "intake_evidence", "view_chain",
                            "export_evidence", "manage_custody"},
    supervisor |-> {"view_evidence", "access_working_copy", "view_chain",
                    "view_analytics", "review_alerts", "approve_export"},
    researcher |-> {"view_analytics", "view_chain", "export_anonymized"} ]

USERS == [
    inv001 |-> "investigator",
    analyst001 |-> "forensic_analyst",
    custodian001 |-> "evidence_custodian",
    sup001 |-> "supervisor",
    research001 |-> "researcher" ]

NoUser == "None"

check_permission(required_permission) ==
    /\ authenticated
    /\ current_role \in DOMAIN ROLES
    /\ required_permission \in ROLES[current_role]

\* the entry log_access_attempt builds (the session duration is left out)
log_entry(action, evidence_id, success, justification) ==
    [timestamp |-> clock, user |-> current_user, role |-> current_role,
     action |-> action, evidence_id |-> evidence_id, success |-> success,
     justification |-> justification]

(* the custody chain *)

EmsGenesis == <<"GENESIS">>

compute_chain_hash(previous_hash, entry_data) ==
    sha256(<<previous_hash, entry_data>>)

\* json.dumps(entry, sort_keys=True) of an entry without its chain_hash
entry_json(e) ==
    <<e.action, e.evidence_id, e.justification, e.metadata, e.previous_hash,
      e.role, e.timestamp, e.user>>

\* the entry add_custody_entry appends to chain
new_custody_entry(chain, evidence_id, action, justification, metadata) ==
    LET previous_hash == IF chain /= <<>> THEN Last(chain).chain_hash
                         ELSE EmsGenesis
        entry == [timestamp |-> clock, user |-> current_user,
                  role |-> current_role, evidence_id |-> evidence_id,
                  action |-> action, justification |-> justification,
                  metadata |-> metadata, previous_hash |-> previous_hash]
    IN  [timestamp |-> entry.timestamp, user |-> entry.user,
         role |-> entry.role, evidence_id |-> entry.evidence_id,
         action |-> entry.action, justification |-> entry.justification,
         metadata |-> entry.metadata, previous_hash |-> entry.previous_hash,
         chain_hash |-> compute_chain_hash(previous_hash, entry_json(entry))]

\* verify_custody_chain: the 0-based indices of the entries reported as breaks
RECURSIVE verify_loop(_, _, _, _)
verify_loop(chain, i, previous_hash, errors) ==
    IF i > Len(chain) THEN errors
    ELSE LET entry == chain[i]
             stored_hash == entry.chain_hash
             entry_copy == [entry EXCEPT !.previous_hash = previous_hash]
             computed_hash == compute_chain_hash(previous_hash,
                                                 entry_json(entry_copy))
         IN  verify_loop(chain, i + 1, stored_hash,
                         IF computed_hash /= stored_hash
                         THEN Append(errors, i - 1) ELSE errors)

verify_custody_chain(chain) ==
    LET errors == verify_loop(chain, 1, EmsGenesis, <<>>)
    IN  [is_valid |-> Len(errors) = 0, errors |-> errors]

(* inputs of the EMS session *)

EvidenceIds == {"EV-1"}
CustodyActions == {"INTAKE", "intake", "EXPORT"}
Justification(action) == IF action = "EXPORT" THEN "Evidence exported"
                         ELSE "Evidence collected"
Metadata(action) == IF action = "EXPORT" THEN <<"export_path">>
                    ELSE <<"file_hash">>

EmsInit ==
    /\ authenticated = FALSE
    /\ current_user = NoUser
    /\ current_role = NoUser
    /\ custody_chain = <<>>
    /\ access_log = <<>>
    /\ denied_attempts = <<>>
    /\ altered = None

\* login form (app.py 860-871)
Login(username) ==
    /\ ~authenticated
    /\ authenticated' = TRUE
    /\ current_user' = username
    /\ current_role' = USERS[username]
    /\ UNCHANGED <<custody_chain, access_log, denied_attempts, altered, clock>>

\* the Logout button
Logout ==
    /\ authenticated
    /\ authenticated' = FALSE
    /\ current_user' = NoUser
    /\ current_role' = NoUser
    /\ UNCHANGED <<custody_chain, access_log, denied_attempts, altered, clock>>

\* add_custody_entry refused: intake without the manage_custody permission
AddCustodyEntryDenied(evidence_id, action) ==
    /\ authenticated
    /\ Len(access_log) + Len(denied_attempts) < MaxCustody
    /\ ~check_permission("manage_custody") /\ action = "intake"
    /\ denied_attempts' = Append(denied_attempts,
           log_entry("custody_entry:" \o action, evidence_id, FALSE, ""))
    /\ clock' = clock + 1
    /\ UNCHANGED <<authenticated, current_user, current_role, custody_chain,
                   access_log, altered>>

\* add_custody_entry appending an entry
AddCustodyEntry(evidence_id, action) ==
    /\ authenticated
    /\ Len(access_log) + Len(denied_attempts) < MaxCustody
    /\ ~(~check_permission("manage_custody") /\ action = "intake")
    /\ custody_chain' = Append(custody_chain,
           new_custody_entry(custody_chain, evidence_id, action,
                             Justification(action), Metadata(action)))
    /\ access_log' = Append(access_log,
           log_entry("custody_entry:" \o action, evidence_id, TRUE,
                     Justification(action)))
    /\ clock' = clock + 1
    /\ UNCHANGED <<authenticated, current_user, current_role,
                   denied_attempts, altered>>

\* one stored field of one entry is changed behind the application's back
ForgedHash == <<"forged">>
AlteredValue(field, old) ==
    CASE field = "timestamp" -> old + 1
      [] field = "metadata" -> <<"altered">>
      [] field \in {"previous_hash", "chain_hash"} -> ForgedHash
      [] OTHER -> "altered"

EntryFields == {"timestamp", "user", "role", "evidence_id", "action",
                "justification", "metadata", "previous_hash", "chain_hash"}

AlterEntry(i, field) ==
    /\ IsNone(altered)
    /\ i \in 1..Len(custody_chain)
    /\ custody_chain' = [custody_chain EXCEPT
           ![i][field] = AlteredValue(field, custody_chain[i][field])]
    /\ altered' = Some(i - 1)
    /\ UNCHANGED <<authenticated, current_user, current_role, access_log,
                   denied_attempts, clock>>

EmsNext ==
    \/ \E u \in DOMAIN USERS : Login(u)
    \/ Logout
    \/ \E ev \in EvidenceIds, a \in CustodyActions : AddCustodyEntry(ev, a)
    \/ \E ev \in EvidenceIds, a \in CustodyActions :
           AddCustodyEntryDenied(ev, a)
    \/ \E i \in 1..MaxCustody, f \in EntryFields : AlterEntry(i, f)


-----------------------------------------------------------------------------
(* SECURITY-INTEGRITY/PFEICS/main.py : numpy arrays *)

\* an ndarray: its samples and the size in bytes of one sample
Array(samples, itemsize) == [samples |-> samples, itemsize |-> itemsize]

\* ndarray.tobytes(): the little-endian bytes in groups of four, each group
\* written as the 32-bit integer it encodes; an 8-byte sample that fits 32
\* bits is its low group followed by its sign extension
SignWord(v) == IF v < 0 THEN -1 ELSE 0

tobytes(arr) ==
    <<"bytes",
      IF arr.itemsize = 4 THEN arr.samples
      ELSE [k \in 1..(2 * Len(arr.samples)) |->
               IF k % 2 = 1 THEN arr.samples[(k + 1) \div 2]
               ELSE SignWord(arr.samples[k \div 2])]>>

\* np.frombuffer(b, dtype=np.int32): every group of four bytes is a sample
frombuffer_int32(b) == Array(b[2], 4)

(* SignalWatermarking *)

\* generate_mock_eeg: int32 samples clipped to 0..1000; k selects the noise
generate_mock_eeg(k) ==
    Array([i \in 1..SampleCount |-> 500 + ((i * k) % 7)], 4)

\* a hexadecimal digit as the code of its character
HexCode(d) == IF d < 10 THEN 48 + d ELSE 87 + d
HexValue(c) == IF c >= 97 THEN c - 87 ELSE c - 48

\* f'{byte:08b}'
ByteBits(byte) == [k \in 1..8 |-> (byte \div (2 ^ (8 - k))) % 2]

\* the bits of each byte in turn
BytesBits(bytes) ==
    <<>> \o [k \in 1..(8 * Len(bytes)) |->
                ByteBits(bytes[((k - 1) \div 8) + 1])[((k - 1) % 8) + 1]]

NullTerminator == [k \in 1..32 |-> 0]

\* str.encode('utf-8') of a string given as the code points of its characters
\* (below 2048: one byte, or a lead byte and a continuation byte)
RECURSIVE encode_utf8(_)
encode_utf8(str) ==
    IF str = <<>> THEN <<>>
    ELSE IF Len(str) = 1
    THEN (IF str[1] < 128 THEN <<str[1]>>
          ELSE <<192 + (str[1] \div 64), 128 + (str[1] % 64)>>)
    ELSE encode_utf8(SubSeq(str, 1, Len(str) \div 2))
         \o encode_utf8(SubSeq(str, (Len(str) \div 2) + 1, Len(str)))

\* embed_lsb_watermark that adds the bit to the sample and keeps its own LSB
embed_lsb_watermark_add(signal, watermark_data) ==
    LET bits == BytesBits(encode_utf8(watermark_data)) \o NullTerminator
    IN  IF Len(bits) > Len(signal.samples) THEN None
        ELSE Some(Array(
                 [i \in 1..Len(signal.samples) |->
                     IF i <= Len(bits)
                     THEN signal.samples[i] + bits[i]
                     ELSE signal.samples[i]],
                 signal.itemsize))

\* embed_lsb_watermark: None when the signal is too short (ValueError)
embed_lsb_watermark(signal, watermark_data) ==
    LET bits == BytesBits(encode_utf8(watermark_data)) \o NullTerminator
    IN  IF Len(bits) > Len(signal.samples) THEN None
        ELSE Some(Array(
                 [i \in 1..Len(signal.samples) |->
                     IF i <= Len(bits)
                     THEN (signal.samples[i] - (signal.samples[i] % 2)) + bits[i]
                     ELSE signal.samples[i]],
                 signal.itemsize))

max_bytes == 1000

\* the character codes extract_lsb_watermark reads from the lowest bits of
\* the first max_bytes * 8 samples, eight samples to a character
lsb_char_codes(samples) ==
    LET limit == IF Len(samples) < max_bytes * 8 THEN Len(samples)
                 ELSE max_bytes * 8
    IN  <<>> \o [b \in 1..(limit \div 8) |->
                    SeqSum([k \in 1..8 |->
                               (samples[8 * (b - 1) + k] % 2) * (2 ^ (8 - k))])]

\* extract_lsb_watermark: the characters read up to the first zero code, '?'
\* for a code that is not printable, and the number of those
extract_lsb_watermark(signal) ==
    LET codes == lsb_char_codes(signal.samples)
        zeros == {b \in 1..Len(codes) : codes[b] = 0}
        read == IF zeros = {} THEN Len(codes)
                ELSE (CHOOSE b \in zeros : \A z \in zeros : b <= z) - 1
        printable(c) == (32 <= c /\ c <= 126) \/ c \in {9, 10, 13}
    IN  [chars |-> <<>> \o [b \in 1..read |->
                       IF printable(codes[b]) THEN codes[b] ELSE 63],
         bit_errors |-> Cardinality({b \in 1..read : ~printable(codes[b])})]

\* confidence = 1.0 - (bit_errors / max(len(chars), 1)), as the fraction
\* num / den
confidence(chars, bit_errors) ==
    LET den == IF Len(chars) > 1 THEN Len(chars) ELSE 1
    IN  [num |-> den - bit_errors, den |-> den]

\* the number of coefficients pywt.wavedec(.., 'db4', level=3) leaves in
\* coeffs[1], the detail band embed_dwt_watermark writes into
dwt_coeff_len(n) == (n + 7) \div 2
detail_coeffs_len(n) == dwt_coeff_len(dwt_coeff_len(dwt_coeff_len(n)))

DwtHexChars == 32

\* len(watermark_bits): bytes.fromhex(watermark_hash[:32]) unpacked to bits
watermark_bits_len(watermark_hash) ==
    4 * (IF Len(watermark_hash) < DwtHexChars THEN Len(watermark_hash)
         ELSE DwtHexChars)

\* embed_dwt_watermark: None when the band is too short (ValueError).  The
\* wavelet arithmetic is floating point and is not computed: the samples of
\* the reconstruction differ from the input by the pattern `shift`.
embed_dwt_watermark(signal, watermark_hash, shift) ==
    IF detail_coeffs_len(Len(signal.samples)) < watermark_bits_len(watermark_hash)
    THEN None
    ELSE Some(Array([i \in 1..Len(signal.samples) |->
                        signal.samples[i] + (IF i % 2 = 0 THEN shift ELSE -shift)],
                    4))

\* ---- the wavelet arithmetic, in fixed point ----
\* pywt.wavedec / pywt.waverec with 'db4' and the default signal extension
\* (half-sample symmetric).  Values are carried in thousandths, the eight
\* decomposition taps in millionths.

DwtUnit == 1000
dec_lo == <<-10597, 32883, 30841, -187035, -27984, 630881, 714847, 230378>>
FilterLen == Len(dec_lo)
dec_hi == [j \in 1..FilterLen |->
             IF j % 2 = 1 THEN 0 - dec_lo[FilterLen + 1 - j]
             ELSE dec_lo[FilterLen + 1 - j]]
rec_lo == [j \in 1..FilterLen |-> dec_lo[FilterLen + 1 - j]]
rec_hi == [j \in 1..FilterLen |-> dec_hi[FilterLen + 1 - j]]

\* value * tap, the tap split so that no product leaves 32 bits
tap_mul(v, c) ==
    ((v * (c \div 1000)) \div 1000) + ((v * (c % 1000)) \div 1000000)

\* x[i] of the symmetric extension ... x2 x1 | x1 x2 ... xN | xN xN-1 ...
RECURSIVE symmetric(_, _)
symmetric(x, i) ==
    IF i < 1 THEN symmetric(x, 1 - i)
    ELSE IF i > Len(x) THEN symmetric(x, 2 * Len(x) + 1 - i)
    ELSE x[i]

\* one level of pywt.dwt: the approximation and the detail coefficients
dwt(x) ==
    [a |-> <<>> \o [k \in 1..dwt_coeff_len(Len(x)) |->
               SeqSum([j \in 1..FilterLen |->
                          tap_mul(symmetric(x, 2 * k - j + 1), dec_lo[j])])],
     d |-> <<>> \o [k \in 1..dwt_coeff_len(Len(x)) |->
               SeqSum([j \in 1..FilterLen |->
                          tap_mul(symmetric(x, 2 * k - j + 1), dec_hi[j])])]]

\* one level of pywt.idwt: 2 * len(a) - FilterLen + 2 samples
idwt(a, d) ==
    <<>> \o [n \in 1..(2 * Len(a) - FilterLen + 2) |->
        SeqSum([j \in 1..FilterLen |->
                   LET t == n + FilterLen - 2 - j
                   IN  IF t % 2 = 0 /\ 0 <= t /\ t \div 2 < Len(a)
                       THEN tap_mul(a[(t \div 2) + 1], rec_lo[j])
                            + tap_mul(d[(t \div 2) + 1], rec_hi[j])
                       ELSE 0])]

\* pywt.wavedec(x, 'db4', level=3): [cA3, cD3, cD2, cD1]
wavedec(x) ==
    LET l1 == dwt(x)
        l2 == dwt(l1.a)
        l3 == dwt(l2.a)
    IN  <<l3.a, l3.d, l2.d, l1.d>>

\* pywt.waverec(coeffs, 'db4'): an approximation one longer than the next
\* detail band loses its last coefficient
RECURSIVE waverec_loop(_, _, _)
waverec_loop(a, coeffs, i) ==
    IF i > Len(coeffs) THEN a
    ELSE LET d == coeffs[i]
             a1 == IF Len(a) = Len(d) + 1 THEN SubSeq(a, 1, Len(d)) ELSE a
         IN  waverec_loop(idwt(a1, d), coeffs, i + 1)

waverec(coeffs) == waverec_loop(coeffs[1], coeffs, 2)

\* signal.astype(float), and back: astype(np.int32) truncates toward zero
as_float(signal) ==
    <<>> \o [i \in 1..Len(signal.samples) |-> signal.samples[i] * DwtUnit]
as_int32(v) == IF v >= 0 THEN v \div DwtUnit ELSE 0 - ((0 - v) \div DwtUnit)

\* bytes.fromhex(watermark_hash[:32]): None when it raises ValueError
fromhex(watermark_hash) ==
    LET h == SubSeq(watermark_hash, 1,
                    IF Len(watermark_hash) < DwtHexChars
                    THEN Len(watermark_hash) ELSE DwtHexChars)
    IN  IF Len(h) % 2 = 1 THEN None
        ELSE Some([k \in 1..(Len(h) \div 2) |->
                      16 * HexValue(h[2 * k - 1]) + HexValue(h[2 * k])])

strength == 5 * DwtUnit
Abs(v) == IF v < 0 THEN 0 - v ELSE v

\* embed_dwt_watermark with the arithmetic computed
embed_dwt_watermark_fx(signal, watermark_hash) ==
    IF IsNone(fromhex(watermark_hash)) THEN Raise("ValueError: fromhex")
    ELSE
    LET watermark_bits == BytesBits(Get(fromhex(watermark_hash)))
        coeffs == wavedec(as_float(signal))
        detail_coeffs == coeffs[2]
        watermarked_detail ==
            [i \in 1..Len(detail_coeffs) |->
                IF i <= Len(watermark_bits)
                THEN LET val == IF Abs(detail_coeffs[i]) > strength
                                THEN Abs(detail_coeffs[i]) ELSE strength
                     IN  IF watermark_bits[i] = 1 THEN val ELSE 0 - val
                ELSE detail_coeffs[i]]
        watermarked == waverec([coeffs EXCEPT ![2] = watermarked_detail])
    IN  IF Len(detail_coeffs) < Len(watermark_bits)
        THEN Raise("ValueError: Signal too short for DWT watermarking")
        ELSE Ok(Array([i \in 1..Len(signal.samples) |-> as_int32(watermarked[i])],
                      4))

\* match = accuracy > 0.85 with accuracy = matches / len(watermark_bits);
\* 0 / 0 is nan, and nan > 0.85 is false
accuracy_match(matches, n) == n > 0 /\ 100 * matches > 85 * n

\* extract_dwt_watermark with the arithmetic computed: the bits compared, the
\* matches among them; accuracy = matches / len(watermark_bits)
extract_dwt_watermark_fx(signal, original_hash) ==
    IF IsNone(fromhex(original_hash)) THEN Raise("ValueError: fromhex")
    ELSE
    LET watermark_bits == BytesBits(Get(fromhex(original_hash)))
        detail_coeffs == wavedec(as_float(signal))[2]
        compared == IF Len(detail_coeffs) < Len(watermark_bits)
                    THEN Len(detail_coeffs) ELSE Len(watermark_bits)
        extracted_bits == [i \in 1..compared |->
                              IF detail_coeffs[i] >= 0 THEN 1 ELSE 0]
        matches == Cardinality({i \in 1..compared :
                                   watermark_bits[i] = extracted_bits[i]})
    IN  IF compared < Len(watermark_bits) THEN Raise("ValueError: shapes")
        ELSE Ok([accuracy |-> [num |-> matches, den |-> Len(watermark_bits)],
                 match |-> accuracy_match(matches, Len(watermark_bits)),
                 compared |-> compared])

(* CaseMetadata *)

CaseIds == {"CASE-1", "CASE-2"}
CaseNumber(case_id) == IF case_id = "CASE-1" THEN 1 ELSE 2

to_canonical_string(meta) ==
    <<"CASE:", meta.case_id, "|SUBJ:", meta.subject_id, "|EXAM:",
      meta.examiner, "|TYPE:", meta.assessment_type, "|STIM:",
      meta.stimulus_protocol, "|TIME:", meta.acquisition_timestamp, "|DEV:",
      meta.device_serial>>

CaseMetadata(case_id, now) ==
    [case_id |-> case_id, subject_id |-> "SUBJ-KK-104",
     examiner |-> "Dr. Salunkhe:FE-2024-789",
     assessment_type |-> "BEOS + Interview",
     stimulus_protocol |-> "Neutral: Flower",
     acquisition_timestamp |-> now, device_serial |-> "DEMO-SENSOR-001"]

\* hashlib.sha512(case_canonical.encode()).hexdigest() as character codes,
\* cut to 2 * DigestBytes hexadecimal digits
watermark_hexdigest(meta) ==
    [k \in 1..(2 * DigestBytes) |->
        HexCode((CaseNumber(meta.case_id) * 7 + meta.acquisition_timestamp * 3
                 + k * 5) % 16)]

(* CryptoEngine *)

\* AES-GCM: the ciphertext hides the plaintext under key and nonce, the tag
\* binds key, nonce, associated data and ciphertext
gcm_encrypt(key, nonce, plaintext) == <<"ct", key, nonce, plaintext>>
gcm_digest(key, nonce, aad, ciphertext) == <<"tag", key, nonce, aad, ciphertext>>

\* encrypt_data_gcm; key and nonce are the random bytes it draws
encrypt_data_gcm(plaintext, metadata, key, nonce) ==
    LET ciphertext == gcm_encrypt(key, nonce, plaintext)
    IN  [ciphertext |-> ciphertext, nonce |-> nonce,
         tag |-> gcm_digest(key, nonce, metadata, ciphertext),
         key |-> key, metadata_hash |-> sha256(metadata)]


\* decrypt_data_gcm: the plaintext, or the exception it raises
decrypt_data_gcm(encrypted_data, metadata) ==
    LET key == encrypted_data.key
        nonce == encrypted_data.nonce
        tag == encrypted_data.tag
        ciphertext == encrypted_data.ciphertext
    IN  IF gcm_digest(key, nonce, metadata, ciphertext) = tag
        THEN Ok(ciphertext[4])
        ELSE Raise("ValueError")

\* sign_data
sign_data(data, private_key) == <<"sig", private_key, sha256(data)>>

\* verify_signature; a key pair is one value in the model, so the public key
\* of a signature is the key that made it
verify_signature(data, signature, public_key) ==
    signature = <<"sig", public_key, sha256(data)>>


-----------------------------------------------------------------------------
(* ChainOfCustodyEvent and the session ledger *)

ChainEventType == {"evidence_acquired", "evidence_encrypted",
    "watermark_embedded", "integrity_verified", "integrity_failed",
    "export_performed", "import_performed", "ai_analysis_run",
    "container_created", "examiner_authenticated", "tamper_simulated"}

GenesisHash == <<"0 * 128">>

BadgeId == "FE-2024-789"

\* values of an event_data dictionary
IntVal(n) == <<"int", n>>
StrVal(x) == <<"str", x>>
BoolVal(b) == <<"bool", b>>

\* ChainOfCustodyEvent.compute_hash: every field but the signature
compute_hash(event) ==
    sha512(<<event.event_id, event.event_type, event.timestamp,
             event.examiner_id, event.description, event.previous_hash,
             event.event_data>>)

\* asdict(event) with the event kind as its string, as JSON
event_json(event) ==
    [event_id |-> event.event_id, event_type |-> event.event_type,
     timestamp |-> event.timestamp, examiner_id |-> event.examiner_id,
     description |-> event.description,
     previous_hash |-> event.previous_hash,
     event_data |-> event.event_data, signature |-> event.signature]

\* add_chain_event with the new event put in front of the ledger
add_chain_event_front(events, tip, private_key, event_type, description, data, now) ==
    LET event == [event_id |-> Len(events), event_type |-> event_type,
                  timestamp |-> now, examiner_id |-> BadgeId,
                  description |-> description, previous_hash |-> tip,
                  event_data |-> [data |-> data, event_hash |-> None],
                  signature |-> None]
        signed == IF IsSome(private_key)
                  THEN [event EXCEPT !.signature =
                           Some(sign_data(event_json(event), Get(private_key)))]
                  ELSE event
        new_hash == compute_hash(signed)
        stored == [signed EXCEPT !.event_data.event_hash = Some(new_hash)]
    IN  [chain_events |-> <<stored>> \o events, chain_hash |-> new_hash]

\* PFEICSEnhancedSystem.add_chain_event on ledger `events` with chain tip
\* `tip`: the new ledger and the new tip
add_chain_event(events, tip, private_key, event_type, description, data, now) ==
    LET event == [event_id |-> Len(events), event_type |-> event_type,
                  timestamp |-> now, examiner_id |-> BadgeId,
                  description |-> description, previous_hash |-> tip,
                  event_data |-> [data |-> data, event_hash |-> None],
                  signature |-> None]
        signed == IF IsSome(private_key)
                  THEN [event EXCEPT !.signature =
                           Some(sign_data(event_json(event), Get(private_key)))]
                  ELSE event
        new_hash == compute_hash(signed)
        \* event_data['event_hash'] = self.chain_hash writes into the
        \* dictionary the event holds
        stored == [signed EXCEPT !.event_data.event_hash = Some(new_hash)]
    IN  [chain_events |-> Append(events, stored), chain_hash |-> new_hash]

(* EvidenceContainer *)

EvidenceContainer(cid, case_metadata) ==
    [cid |-> cid, case_metadata |-> case_metadata, raw_evidence |-> None,
     watermarked_evidence |-> None, chain |-> <<>>,
     examiner_private_key |-> None]

set_raw_evidence(c, signal) == [c EXCEPT !.raw_evidence = Some(signal)]

\* set_watermarked_evidence handed the raw buffer itself, written in place
set_watermarked_evidence_inplace(c, signal) == [c EXCEPT !.watermarked_evidence = Some(signal), !.raw_evidence = Some(signal)]

set_watermarked_evidence(c, signal) ==
    [c EXCEPT !.watermarked_evidence = Some(signal)]

\* EvidenceContainer.add_chain_event for each event of `events` in turn
add_chain_events(c, events) == [c EXCEPT !.chain = c.chain \o events]

(* the archive: the members of the zip file *)

EmptyArchive == [manifest |-> None, raw |-> None, wm |-> None,
                 chain |-> None, sig |-> None]

RandomKey(now, member) == <<"key", now, member>>
RandomNonce(now, member) == <<"nonce", now, member>>

JsonChain(events) ==
    <<"json", [i \in 1..Len(events) |-> event_json(events[i])]>>

\* EvidenceContainer.export_container: the exception raised or the archive
\* written, and what is left at filepath
container_export(c, now) ==
    IF IsNone(c.raw_evidence) \/ IsNone(c.watermarked_evidence)
    THEN [kind |-> "AttributeError", archive |-> EmptyArchive]
    ELSE LET manifest ==
                 [version |-> "2.0", case_metadata |-> c.case_metadata,
                  created |-> now,
                  evidence_hash |-> sha512(tobytes(Get(c.raw_evidence))),
                  watermarked_hash |->
                      sha512(tobytes(Get(c.watermarked_evidence))),
                  chain_length |-> Len(c.chain)]
             aad == to_canonical_string(c.case_metadata)
         IN  [kind |-> "ok",
              archive |->
                [manifest |-> Some(manifest),
                 raw |-> Some(encrypt_data_gcm(tobytes(Get(c.raw_evidence)),
                            aad, RandomKey(now, "raw"), RandomNonce(now, "raw"))),
                 wm |-> Some(encrypt_data_gcm(
                            tobytes(Get(c.watermarked_evidence)),
                            aad, RandomKey(now, "wm"), RandomNonce(now, "wm"))),
                 chain |-> Some(encrypt_data_gcm(JsonChain(c.chain),
                            <<c.case_metadata.case_id>>,
                            RandomKey(now, "chain"), RandomNonce(now, "chain"))),
                 sig |-> IF IsSome(c.examiner_private_key)
                         THEN Some(sign_data(manifest,
                                             Get(c.examiner_private_key)))
                         ELSE None]]


-----------------------------------------------------------------------------
(* PFEICSEnhancedSystem: the session *)

Paths == {"case.pfeics"}
TempPath == "TEMP.pfeics"
AllPaths == Paths \cup {TempPath}

NoiseSeeds == {0}
DwtShifts == {1}
MockSeeds == {1}

AttackLo == 400
AttackHi == 800

\* np.random.randint(-5, 5, n): one of the sequences it can draw
Noise(seed, n) == [i \in 1..n |-> ((seed + i * 3) % 10) - 5]

Op(name, outcome, appended, path) ==
    [name |-> name, outcome |-> outcome, appended |-> appended,
     path |-> path, archive |-> ""]

\* the add_chain_event call of each handler
log_authenticated(events, tip, key, now) ==
    add_chain_event(events, tip, Some(key), "examiner_authenticated",
        "Examiner authenticated",
        <<StrVal("Dr. Salunkhe"), StrVal(BadgeId), key>>, now)

log_acquired(events, tip, private_key, raw_signal, now) ==
    LET r == add_chain_event(events, tip, private_key, "evidence_acquired",
                 "Raw evidence acquired",
                 <<IntVal(Len(raw_signal.samples)), IntVal(256),
                   sha512(tobytes(raw_signal)), IntVal(10)>>, now)
    IN  add_chain_event(r.chain_events, r.chain_hash, private_key,
            "evidence_encrypted", "Raw evidence encrypted and secured",
            <<StrVal("AES-256-GCM"), BoolVal(TRUE)>>, now)

log_watermarked(events, tip, private_key, watermark_hash, wm, now) ==
    add_chain_event(events, tip, private_key, "watermark_embedded",
        "Dual-domain watermark embedded (LSB + DWT)",
        <<StrVal(watermark_hash), sha512(tobytes(wm))>>, now)

log_tamper(events, tip, private_key, now) ==
    add_chain_event(events, tip, private_key, "tamper_simulated",
        "MALICIOUS ATTACK SIMULATED",
        <<StrVal("Splicing + Noise Injection"), StrVal("400-800")>>, now)

\* what apply_watermarking stores: DWT first, LSB second; None on ValueError
fully_watermarked(c, shift) ==
    LET watermark_hash == watermark_hexdigest(c.case_metadata)
        dwt_wm_signal == embed_dwt_watermark(Get(c.raw_evidence),
                                             watermark_hash, shift)
    IN  IF IsNone(dwt_wm_signal) THEN None
        ELSE embed_lsb_watermark(Get(dwt_wm_signal), watermark_hash)

\* the buffer simulate_attack stores: samples 400..799 zeroed, noise added;
\* the sum takes the wider of the two integer types
tampered_signal(original_signal, noise, noise_itemsize) ==
    Array([i \in 1..Len(original_signal.samples) |->
              (IF AttackLo < i /\ i <= AttackHi THEN 0
               ELSE original_signal.samples[i]) + noise[i]],
          IF original_signal.itemsize > noise_itemsize
          THEN original_signal.itemsize ELSE noise_itemsize)

\* what an archive was exported from
Snapshot(c, ledger) ==
    [raw |-> c.raw_evidence, wm |-> c.watermarked_evidence,
     ledger |-> ledger]

(* an archive left by an earlier session: authenticate, acquire, watermark,
   optionally simulate_attack on a build with 8-byte default integers, export *)

EarlierKey == <<"rsa", 0>>

EarlierLedger(attacked) ==
    LET meta == CaseMetadata("CASE-1", 1)
        c == set_raw_evidence(EvidenceContainer(<<"acquired", 0>>, meta), generate_mock_eeg(1))
        wm == Get(fully_watermarked(c, 1))
        r0 == log_authenticated(<<>>, GenesisHash, EarlierKey, 0)
        r1 == log_acquired(r0.chain_events, r0.chain_hash, Some(EarlierKey),
                           Get(c.raw_evidence), 1)
        r2 == log_watermarked(r1.chain_events, r1.chain_hash,
                  Some(EarlierKey), watermark_hexdigest(meta), wm, 2)
    IN  IF attacked
        THEN log_tamper(r2.chain_events, r2.chain_hash, Some(EarlierKey),
                        3).chain_events
        ELSE r2.chain_events

EarlierContainer(attacked) ==
    LET meta == CaseMetadata("CASE-1", 1)
        c == set_raw_evidence(EvidenceContainer(<<"acquired", 0>>, meta), generate_mock_eeg(1))
        wm == Get(fully_watermarked(c, 1))
    IN  [c EXCEPT !.watermarked_evidence =
                      Some(IF attacked
                           THEN tampered_signal(wm, Noise(0, Len(wm.samples)), 8)
                           ELSE wm),
                  !.chain = EarlierLedger(attacked),
                  !.examiner_private_key = Some(EarlierKey)]

EarlierArchive(attacked) == container_export(EarlierContainer(attacked), 4).archive

SessionStart == Len(EarlierLedger(TRUE))

HasRaw == IsSome(container) /\ IsSome(Get(container).raw_evidence)
HasWatermarked ==
    IsSome(container) /\ IsSome(Get(container).watermarked_evidence)

SysInit ==
    /\ examiner_private_key = None
    /\ container = None
    /\ chain_events = <<>>
    /\ chain_hash = GenesisHash
    /\ ai_analyzing = FALSE
    /\ ai_thread = [pc |-> "idle", raw |-> None]
    /\ after_queue = <<>>
    /\ \E earlier \in {"none", "plain", "attacked"} :
           /\ files = [p \in AllPaths |->
                         IF p = TempPath \/ earlier = "none" THEN None
                         ELSE Some(EarlierArchive(earlier = "attacked"))]
           /\ origin = [p \in AllPaths |->
                          IF p = TempPath \/ earlier = "none" THEN None
                          ELSE Some(Snapshot(
                                   EarlierContainer(earlier = "attacked"),
                                   EarlierLedger(earlier = "attacked")))]
    /\ default_int \in {4, 8}
    /\ exported = {}
    /\ last_op = Op("init", "ok", <<>>, "")

\* authenticate_examiner
AuthenticateExaminer ==
    /\ clock < SessionStart + MaxClock
    /\ LET key == <<"rsa", clock>>
           r == log_authenticated(chain_events, chain_hash, key, clock)
       IN  /\ examiner_private_key' = Some(key)
           /\ chain_events' = r.chain_events
           /\ chain_hash' = r.chain_hash
    /\ clock' = clock + 1
    /\ last_op' = Op("authenticate_examiner", "ok",
                     <<"examiner_authenticated">>, "")
    /\ UNCHANGED <<container, ai_analyzing, ai_thread, after_queue, files,
                    default_int, exported, origin>>

\* acquire_evidence
AcquireEvidence(case_id, seed) ==
    /\ clock < SessionStart + MaxClock
    /\ IsSome(examiner_private_key)
    /\ LET raw_signal == generate_mock_eeg(seed)
           case_meta == CaseMetadata(case_id, clock)
           c == [set_raw_evidence(EvidenceContainer(<<"acquired", clock>>,
                                                   case_meta),
                                  raw_signal)
                   EXCEPT !.examiner_private_key = examiner_private_key]
           encrypted == encrypt_data_gcm(tobytes(raw_signal),
                            to_canonical_string(case_meta),
                            RandomKey(clock, "raw"), RandomNonce(clock, "raw"))
           r2 == log_acquired(chain_events, chain_hash, examiner_private_key,
                              raw_signal, clock)
       IN  /\ container' = Some(c)
           /\ chain_events' = r2.chain_events
           /\ chain_hash' = r2.chain_hash
    /\ clock' = clock + 1
    /\ last_op' = Op("acquire_evidence", "ok",
                     <<"evidence_acquired", "evidence_encrypted">>, "")
    /\ UNCHANGED <<examiner_private_key, ai_analyzing, ai_thread, after_queue,
                   files, default_int, exported, origin>>

\* apply_watermarking
ApplyWatermarking(shift) ==
    /\ clock < SessionStart + MaxClock
    /\ HasRaw
    /\ LET c == Get(container)
           wm == fully_watermarked(c, shift)
       IN  IF IsNone(wm)
           THEN /\ last_op' = Op("apply_watermarking", "error", <<>>, "")
                /\ UNCHANGED <<container, chain_events, chain_hash, clock>>
           ELSE LET r == log_watermarked(chain_events, chain_hash,
                             examiner_private_key,
                             watermark_hexdigest(c.case_metadata), Get(wm),
                             clock)
                IN  /\ container' = Some(set_watermarked_evidence(c, Get(wm)))
                    /\ chain_events' = r.chain_events
                    /\ chain_hash' = r.chain_hash
                    /\ clock' = clock + 1
                    /\ last_op' = Op("apply_watermarking", "ok",
                                     <<"watermark_embedded">>, "")
    /\ UNCHANGED <<examiner_private_key, ai_analyzing, ai_thread, after_queue,
                   files,  default_int, exported, origin>>

\* overall_pass that is satisfied with either watermark
overall_pass_either(lsb_match, dwt_match) == lsb_match \/ dwt_match

\* overall_pass = lsb_match and dwt_match
overall_pass(lsb_match, dwt_match) == lsb_match /\ dwt_match

\* the bit matches extract_dwt_watermark may count on the session's signal:
\* the largest count not above the threshold, and the next one
DwtMatches == {(85 * 8 * DigestBytes) \div 100, (85 * 8 * DigestBytes) \div 100 + 1}

\* verify_integrity; matches is the number of bits extract_dwt_watermark
\* finds equal, whose floating-point arithmetic is not computed here
VerifyIntegrity(matches) ==
    /\ clock < SessionStart + MaxClock
    /\ HasWatermarked
    /\ LET c == Get(container)
           expected_hash == watermark_hexdigest(c.case_metadata)
           lsb == extract_lsb_watermark(Get(c.watermarked_evidence))
           lsb_match == lsb.chars = expected_hash
           dwt_match == accuracy_match(matches,
                                       watermark_bits_len(expected_hash))
           r == IF overall_pass(lsb_match, dwt_match)
                THEN add_chain_event(chain_events, chain_hash,
                         examiner_private_key, "integrity_verified",
                         "Integrity verification PASSED (LSB + DWT)",
                         <<IntVal(lsb.bit_errors), IntVal(matches),
                           StrVal("AUTHENTIC")>>, clock)
                ELSE add_chain_event(chain_events, chain_hash,
                         examiner_private_key, "integrity_failed",
                         "Integrity verification FAILED",
                         <<IntVal(lsb.bit_errors), BoolVal(lsb_match),
                           IntVal(matches), BoolVal(dwt_match),
                           StrVal("TAMPERED OR CORRUPTED")>>, clock)
       IN  /\ chain_events' = r.chain_events
           /\ chain_hash' = r.chain_hash
           /\ last_op' = Op("verify_integrity", "ok",
                            <<Last(r.chain_events).event_type>>, "")
    /\ clock' = clock + 1
    /\ UNCHANGED <<examiner_private_key, container, ai_analyzing, ai_thread,
                   after_queue, files,  default_int, exported,
                   origin>>

\* simulate_attack
SimulateAttack(seed) ==
    /\ clock < SessionStart + MaxClock
    /\ HasWatermarked
    /\ LET c == Get(container)
           original_signal == Get(c.watermarked_evidence)
           tampered == tampered_signal(original_signal,
                           Noise(seed, Len(original_signal.samples)),
                           default_int)
           r == log_tamper(chain_events, chain_hash, examiner_private_key,
                           clock)
       IN  /\ container' = Some(set_watermarked_evidence(c, tampered))
           /\ chain_events' = r.chain_events
           /\ chain_hash' = r.chain_hash
    /\ clock' = clock + 1
    /\ last_op' = Op("simulate_attack", "ok", <<"tamper_simulated">>, "")
    /\ UNCHANGED <<examiner_private_key, ai_analyzing, ai_thread, after_queue,
                   files,  default_int, exported, origin>>


\* run_ai_analysis: sets the busy flag and starts the worker thread
RunAIAnalysis ==
    /\ clock < SessionStart + MaxClock
    /\ HasRaw
    /\ ~ai_analyzing
    /\ ai_analyzing' = TRUE
    /\ ai_thread' = [pc |-> "started", raw |-> None]
    /\ last_op' = Op("run_ai_analysis", "ok", <<>>, "")
    /\ UNCHANGED <<examiner_private_key, container, chain_events, chain_hash,
                   after_queue, files, clock,  default_int, exported,
                   origin>>

\* analyze(), first half: raw = self.container.raw_evidence and the anomaly
\* analysis of it
AnalyzeReadRaw ==
    /\ ai_thread.pc = "started"
    /\ ai_thread' = [pc |-> "analysed", raw |-> Get(container).raw_evidence]
    /\ last_op' = Op("analyze", "ok", <<>>, "")
    /\ UNCHANGED <<examiner_private_key, container, chain_events, chain_hash,
                   ai_analyzing, after_queue, files, clock, 
                   default_int, exported, origin>>

\* detect_filtering_artifacts: np.corrcoef raises ValueError when the two
\* spectra differ in length
detect_filtering_artifacts(original, current) ==
    IF Len(original.samples) = Len(current.samples) THEN "ok" ELSE "error"

\* analyze(), second half: the comparison with the watermarked buffer of the
\* container that is current now, then root.after(0, _update_ai_results)
AnalyzeCompare ==
    /\ ai_thread.pc = "analysed"
    /\ LET c == Get(container)
           result == IF IsSome(c.watermarked_evidence)
                     THEN detect_filtering_artifacts(Get(ai_thread.raw),
                              Get(c.watermarked_evidence))
                     ELSE "ok"
       IN  /\ after_queue' = Append(after_queue, result)
           /\ last_op' = Op("analyze", result, <<>>, "")
    /\ ai_thread' = [pc |-> "idle", raw |-> None]
    /\ UNCHANGED <<examiner_private_key, container, chain_events, chain_hash,
                   ai_analyzing, files, clock,  default_int,
                   exported, origin>>

\* _update_ai_results that leaves the busy flag set
UpdateAIResults_busy ==
    /\ after_queue /= <<>>
    /\ LET r == add_chain_event(chain_events, chain_hash,
                    examiner_private_key, "ai_analysis_run",
                    "AI interpretation generated (non-evidentiary)",
                    <<StrVal("Results not admissible as evidence")>>, clock)
       IN  /\ chain_events' = r.chain_events
           /\ chain_hash' = r.chain_hash
    /\ after_queue' = Tail(after_queue)
    /\ clock' = clock + 1
    /\ last_op' = Op("_update_ai_results", after_queue[1],
                     <<"ai_analysis_run">>, "")
    /\ UNCHANGED <<examiner_private_key, container, ai_thread, files,
                   ai_analyzing, default_int, exported, origin>>

\* _update_ai_results, run by the event loop with the analysis text or the
\* error message
UpdateAIResults ==
    /\ after_queue /= <<>>
    /\ LET r == add_chain_event(chain_events, chain_hash,
                    examiner_private_key, "ai_analysis_run",
                    "AI interpretation generated (non-evidentiary)",
                    <<StrVal("Results not admissible as evidence")>>, clock)
       IN  /\ chain_events' = r.chain_events
           /\ chain_hash' = r.chain_hash
    /\ ai_analyzing' = FALSE
    /\ after_queue' = Tail(after_queue)
    /\ clock' = clock + 1
    /\ last_op' = Op("_update_ai_results", after_queue[1],
                     <<"ai_analysis_run">>, "")
    /\ UNCHANGED <<examiner_private_key, container, ai_thread, files,
                    default_int, exported, origin>>

\* export_container
ExportContainer(filepath) ==
    /\ clock < SessionStart + MaxClock
    /\ IsSome(container)
    /\ LET c == add_chain_events([Get(container) EXCEPT !.chain = <<>>],
                                 chain_events)
           x == container_export(c, clock)
       IN  /\ container' = Some(c)
           /\ files' = [files EXCEPT ![filepath] = Some(x.archive)]
           /\ IF x.kind = "ok"
              THEN LET r == add_chain_event(chain_events, chain_hash,
                                examiner_private_key, "container_created",
                                "Evidence container exported",
                                <<StrVal(filepath), sha256(x.archive)>>, clock)
                   IN  /\ chain_events' = r.chain_events
                       /\ chain_hash' = r.chain_hash
                       /\ exported' = exported \cup {c.cid}
                       /\ origin' = [origin EXCEPT
                              ![filepath] = Some(Snapshot(c, chain_events))]
                       /\ last_op' = Op("export_container", "ok",
                                        <<"container_created">>, filepath)
              ELSE /\ origin' = [origin EXCEPT ![filepath] = None]
                   /\ last_op' = Op("export_container", "error", <<>>,
                                    filepath)
                   /\ UNCHANGED <<chain_events, chain_hash, exported>>
    /\ clock' = clock + 1
    /\ UNCHANGED <<examiner_private_key, ai_analyzing, ai_thread, after_queue,
                    default_int>>

\* generate_signed_report; built tells whether _create_pdf_report could
\* write the file
GenerateSignedReport(built) ==
    /\ clock < SessionStart + MaxClock
    /\ IsSome(container)
    /\ IF built
       THEN LET r == add_chain_event(chain_events, chain_hash,
                         examiner_private_key, "export_performed",
                         "Signed PDF report generated",
                         <<StrVal("report.pdf")>>, clock)
            IN  /\ chain_events' = r.chain_events
                /\ chain_hash' = r.chain_hash
                /\ last_op' = Op("generate_signed_report", "ok",
                                 <<"export_performed">>, "")
       ELSE /\ last_op' = Op("generate_signed_report", "error", <<>>, "")
            /\ UNCHANGED <<chain_events, chain_hash>>
    /\ clock' = clock + 1
    /\ UNCHANGED <<examiner_private_key, container, ai_analyzing, ai_thread,
                   after_queue, files,  default_int, exported,
                   origin>>

EmailOutcomes == {"sent", "cancelled", "smtp_error"}

\* trigger_email_workflow; outcome is what the recipient dialog and the SMTP
\* server do
TriggerEmailWorkflow(outcome) ==
    /\ clock < SessionStart + MaxClock
    /\ IsSome(container)
    /\ LET c == add_chain_events(Get(container), chain_events)
           x == container_export(c, clock)
       IN  /\ container' = Some(c)
           /\ IF x.kind /= "ok"
              THEN /\ files' = [files EXCEPT ![TempPath] = Some(x.archive)]
                   /\ origin' = [origin EXCEPT ![TempPath] = None]
                   /\ last_op' = Op("trigger_email_workflow", "error", <<>>,
                                    TempPath)
                   /\ UNCHANGED <<chain_events, chain_hash, exported>>
              ELSE /\ exported' = exported \cup {c.cid}
                   /\ IF outcome = "sent"
                      THEN LET r == add_chain_event(chain_events, chain_hash,
                                        examiner_private_key,
                                        "export_performed", "Package emailed",
                                        <<>>, clock)
                           IN  /\ chain_events' = r.chain_events
                               /\ chain_hash' = r.chain_hash
                               /\ files' = [files EXCEPT ![TempPath] = None]
                               /\ origin' = [origin EXCEPT ![TempPath] = None]
                               /\ last_op' = Op("trigger_email_workflow",
                                      "ok", <<"export_performed">>, TempPath)
                      ELSE /\ files' = [files EXCEPT
                                  ![TempPath] = Some(x.archive)]
                           /\ origin' = [origin EXCEPT ![TempPath] =
                                  Some(Snapshot(c, chain_events))]
                           /\ last_op' = Op("trigger_email_workflow",
                                  IF outcome = "cancelled" THEN "rejected"
                                  ELSE "error", <<>>, TempPath)
                           /\ UNCHANGED <<chain_events, chain_hash>>
    /\ clock' = clock + 1
    /\ UNCHANGED <<examiner_private_key, ai_analyzing, ai_thread, after_queue,
                    default_int>>


\* safe_read inside import_container: absent, the plaintext, or the exception
safe_read(member, key) ==
    IF IsNone(member) THEN [kind |-> "absent", value |-> None]
    ELSE decrypt_data_gcm(Get(member), key)

\* ChainOfCustodyEvent(...) rebuilt from one element of the JSON array
event_from_json(e) ==
    [event_id |-> e.event_id,
     event_type |-> IF e.event_type \in ChainEventType THEN e.event_type
                    ELSE "evidence_acquired",
     timestamp |-> e.timestamp, examiner_id |-> e.examiner_id,
     description |-> e.description, previous_hash |-> e.previous_hash,
     event_data |-> e.event_data, signature |-> e.signature]

\* import_container on archive a: the outcome and the session state it leaves
import_container(a) ==
    LET unchanged == [outcome |-> "error", container |-> container,
                      chain_events |-> chain_events,
                      chain_hash |-> chain_hash, appended |-> <<>>]
    IN  IF IsNone(a.manifest) THEN unchanged
        ELSE
        LET case_meta == Get(a.manifest).case_metadata
            raw_bytes == safe_read(a.raw, to_canonical_string(case_meta))
            wm_bytes == safe_read(a.wm, to_canonical_string(case_meta))
            chain_bytes == safe_read(a.chain, <<case_meta.case_id>>)
        IN  IF "ValueError" \in {raw_bytes.kind, wm_bytes.kind, chain_bytes.kind}
               \/ raw_bytes.kind = "absent"
            THEN unchanged
            ELSE
            LET c0 == set_raw_evidence(
                          EvidenceContainer(<<"imported", clock>>, case_meta),
                          frombuffer_int32(Get(raw_bytes.value)))
                c == IF wm_bytes.kind = "ok"
                     THEN set_watermarked_evidence(c0,
                              frombuffer_int32(Get(wm_bytes.value)))
                     ELSE c0
            IN  IF chain_bytes.kind = "ok"
                THEN IF Get(chain_bytes.value)[1] = "json"
                     THEN LET loaded == Get(chain_bytes.value)[2]
                              events == [i \in 1..Len(loaded) |->
                                            event_from_json(loaded[i])]
                          IN  [outcome |-> "ok", container |-> Some(c),
                               chain_events |-> events,
                               chain_hash |-> IF events /= <<>>
                                              THEN compute_hash(Last(events))
                                              ELSE chain_hash,
                               appended |-> <<>>]
                     ELSE [outcome |-> "error", container |-> Some(c),
                           chain_events |-> <<>>, chain_hash |-> chain_hash,
                           appended |-> <<>>]
                ELSE LET r == add_chain_event(<<>>, chain_hash,
                                  examiner_private_key, "import_performed",
                                  "Container imported (Log Reset)", <<>>,
                                  clock)
                     IN  [outcome |-> "ok", container |-> Some(c),
                          chain_events |-> r.chain_events,
                          chain_hash |-> compute_hash(Last(r.chain_events)),
                          appended |-> <<"import_performed">>]

\* the ways an archive can have been edited outside the application before
\* it is opened: a member deleted, a member's tag damaged, the ledger blob
\* replaced by an authentic encryption of something that is not JSON
ArchiveEdits == {"drop_manifest", "drop_raw", "drop_wm", "drop_chain",
                 "corrupt_raw", "corrupt_chain", "garble_chain"}

CorruptTag == <<"tag", "corrupt">>

edited_archive(a, edit) ==
    CASE edit = "intact" -> a
      [] edit = "drop_manifest" -> [a EXCEPT !.manifest = None]
      [] edit = "drop_raw" -> [a EXCEPT !.raw = None]
      [] edit = "drop_wm" -> [a EXCEPT !.wm = None]
      [] edit = "drop_chain" -> [a EXCEPT !.chain = None]
      [] edit = "corrupt_raw" ->
             [a EXCEPT !.raw = Some([Get(a.raw) EXCEPT !.tag = CorruptTag])]
      [] edit = "corrupt_chain" ->
             [a EXCEPT !.chain = Some([Get(a.chain) EXCEPT !.tag = CorruptTag])]
      [] edit = "garble_chain" ->
             [a EXCEPT !.chain = Some(encrypt_data_gcm(<<"garbage">>,
                  <<Get(a.manifest).case_metadata.case_id>>,
                  Get(a.chain).key, Get(a.chain).nonce))]

\* import_container of the file at f, found intact or edited
ImportContainer(f, edit) ==
    /\ IsSome(files[f])
    /\ edit /= "intact" => IsSome(Get(files[f]).manifest)
    /\ LET r == import_container(edited_archive(Get(files[f]), edit))
       IN  /\ clock + Len(r.appended) <= SessionStart + MaxClock
           /\ container' = r.container
           /\ chain_events' = r.chain_events
           /\ chain_hash' = r.chain_hash
           /\ clock' = clock + Len(r.appended)
           /\ last_op' = [Op("import_container", r.outcome, r.appended, f)
                            EXCEPT !.archive = edit]
    /\ UNCHANGED <<examiner_private_key, ai_analyzing, ai_thread, after_queue,
                   files, default_int, exported, origin>>

\* the handlers of the main thread
SysNext ==
    \/ AuthenticateExaminer
    \/ \E case_id \in CaseIds, seed \in MockSeeds :
           AcquireEvidence(case_id, seed)
    \/ \E shift \in DwtShifts : ApplyWatermarking(shift)
    \/ \E matches \in DwtMatches : VerifyIntegrity(matches)
    \/ \E seed \in NoiseSeeds : SimulateAttack(seed)
    \/ \E f \in Paths : ExportContainer(f)
    \/ \E built \in BOOLEAN : GenerateSignedReport(built)
    \/ \E outcome \in EmailOutcomes : TriggerEmailWorkflow(outcome)
    \/ \E f \in AllPaths : ImportContainer(f, "intact")

\* opening archives that were edited outside the application
EditedNext ==
    \/ AuthenticateExaminer
    \/ \E shift \in DwtShifts : ApplyWatermarking(shift)
    \/ \E f \in Paths : ExportContainer(f)
    \/ \E f \in Paths, edit \in {"intact"} \cup ArchiveEdits :
           ImportContainer(f, edit)

\* the AI worker thread, its callback, and the handlers that replace the
\* buffers it reads
AiNext ==
    \/ RunAIAnalysis
    \/ AnalyzeReadRaw
    \/ AnalyzeCompare
    \/ UpdateAIResults
    \/ AuthenticateExaminer
    \/ \E case_id \in CaseIds, seed \in MockSeeds :
           AcquireEvidence(case_id, seed)
    \/ \E seed \in NoiseSeeds : SimulateAttack(seed)
    \/ \E f \in Paths : ImportContainer(f, "intact")

-----------------------------------------------------------------------------
(* EvidenceContainer and CryptoEngine called directly *)

Signals == {generate_mock_eeg(1), generate_mock_eeg(2)}

\* EvidenceContainer(case_metadata)
NewEvidenceContainer(case_id) ==
    /\ clock < SessionStart + MaxClock
    /\ container' = Some(EvidenceContainer(<<"new", clock>>,
                                           CaseMetadata(case_id, clock)))
    /\ clock' = clock + 1
    /\ last_op' = Op("EvidenceContainer", "ok", <<>>, "")
    /\ UNCHANGED <<examiner_private_key, chain_events, chain_hash,
                   ai_analyzing, ai_thread, after_queue, files, default_int,
                   exported, origin>>

\* container.set_raw_evidence(signal)
SetRawEvidence(signal) ==
    /\ IsSome(container)
    /\ container' = Some(set_raw_evidence(Get(container), signal))
    /\ last_op' = Op("set_raw_evidence", "ok", <<>>, "")
    /\ UNCHANGED <<examiner_private_key, chain_events, chain_hash,
                   ai_analyzing, ai_thread, after_queue, files, clock,
                   default_int, exported, origin>>

\* container.set_watermarked_evidence(signal)
SetWatermarkedEvidence(signal) ==
    /\ IsSome(container)
    /\ container' = Some(set_watermarked_evidence(Get(container), signal))
    /\ last_op' = Op("set_watermarked_evidence", "ok", <<>>, "")
    /\ UNCHANGED <<examiner_private_key, chain_events, chain_hash,
                   ai_analyzing, ai_thread, after_queue, files, clock,
                   default_int, exported, origin>>

ContainerNext ==
    \/ \E case_id \in CaseIds : NewEvidenceContainer(case_id)
    \/ \E signal \in Signals : SetRawEvidence(signal)
    \/ \E signal \in Signals : SetWatermarkedEvidence(signal)

Plaintexts == {tobytes(Array(<<1, -2>>, 4)), tobytes(Array(<<1, -2>>, 8)),
               JsonChain(<<>>)}
AssociatedData == {<<"CASE-1">>, <<"CASE-2">>,
                   to_canonical_string(CaseMetadata("CASE-1", 1))}
Draws == {0, 1}

\* CryptoEngine.encrypt_data_gcm(plaintext, metadata); t selects the random
\* key and nonce
Encrypt(plaintext, metadata, t) ==
    /\ enc_bundle' = Some([data |-> encrypt_data_gcm(plaintext, metadata,
                                       RandomKey(t, "raw"),
                                       RandomNonce(t, "raw")),
                           plaintext |-> plaintext, metadata |-> metadata,
                           corrupted |-> "none"])
    /\ dec_result' = None

\* the bundle is damaged in storage: another ciphertext, or another tag
CorruptBundle(field) ==
    /\ IsSome(enc_bundle)
    /\ Get(enc_bundle).corrupted = "none"
    /\ LET e == Get(enc_bundle)
           data == IF field = "tag" THEN [e.data EXCEPT !.tag = CorruptTag]
                   ELSE [e.data EXCEPT !.ciphertext =
                            gcm_encrypt(e.data.key, e.data.nonce,
                                        <<"flipped", e.plaintext>>)]
       IN  enc_bundle' = Some([e EXCEPT !.data = data, !.corrupted = field])
    /\ dec_result' = None

\* CryptoEngine.decrypt_data_gcm(encrypted_data, metadata)
Decrypt(metadata) ==
    /\ IsSome(enc_bundle)
    /\ dec_result' = Some([metadata |-> metadata,
                           result |-> decrypt_data_gcm(Get(enc_bundle).data,
                                                       metadata)])
    /\ UNCHANGED enc_bundle

CryptoNext ==
    \/ \E p \in Plaintexts, a \in AssociatedData, t \in Draws : Encrypt(p, a, t)
    \/ \E field \in {"ciphertext", "tag"} : CorruptBundle(field)
    \/ \E a \in AssociatedData : Decrypt(a)

-----------------------------------------------------------------------------
(* SignalWatermarking called directly *)

MaxFpLen == 2       \* characters of a fingerprint handed to the embedder

\* NUL, BEL, '1', 'a' and 'e' with an acute accent (two bytes in UTF-8)
FpChars == {0, 7, 49, 97, 233}
Fingerprints == UNION {[1..n -> FpChars] : n \in 0..MaxFpLen}

\* the signals: one sample short of the longest fingerprint's bits, exactly
\* enough, and one byte more; of positive or of negative samples
WmLengths == {8 * MaxFpLen + Len(NullTerminator) - 1,
              8 * MaxFpLen + Len(NullTerminator),
              8 * MaxFpLen + Len(NullTerminator) + 8}
WmSignal(n, k) ==
    Array([i \in 1..n |-> IF k = 0 THEN 0 - (3 * i) - 1 ELSE 500 + ((i * k) % 7)],
          4)
WmSignals == {WmSignal(n, k) : n \in WmLengths, k \in {0, 1}}

\* the samples that carry a bit of the fingerprint or of its terminator
carrying(fp) == 8 * Len(encode_utf8(fp)) + Len(NullTerminator)

NoAttack == [kind |-> "none", touched |-> 0]

WmInit ==
    wm_call \in {Some([signal |-> signal, fp |-> fp, watermarked |-> None,
                       attack |-> NoAttack, extracted |-> None]) :
                    signal \in WmSignals, fp \in Fingerprints}

\* watermarked = embed_lsb_watermark(signal, fp)
EmbedLsb ==
    /\ IsSome(wm_call)
    /\ IsNone(Get(wm_call).watermarked)
    /\ LET c == Get(wm_call)
           r == embed_lsb_watermark(c.signal, c.fp)
       IN  wm_call' = Some([c EXCEPT !.watermarked =
                               Some(IF IsNone(r) THEN Raise("ValueError")
                                    ELSE Ok(Get(r)))])

Embedded == Get(Get(Get(wm_call).watermarked).value)

CanAttack ==
    /\ IsSome(wm_call)
    /\ IsSome(Get(wm_call).watermarked)
    /\ Get(Get(wm_call).watermarked).kind = "ok"
    /\ Get(wm_call).attack.kind = "none"
    /\ IsNone(Get(wm_call).extracted)

\* tampered_signal[lo:hi] = 0 on the watermarked signal (lo, hi as Python
\* slice bounds)
ZeroSamples(lo, hi) ==
    /\ CanAttack
    /\ lo < hi /\ hi <= Len(Embedded.samples)
    /\ LET c == Get(wm_call)
           n == carrying(c.fp)
           zeroed == Array([i \in 1..Len(Embedded.samples) |->
                               IF lo < i /\ i <= hi THEN 0
                               ELSE Embedded.samples[i]],
                           Embedded.itemsize)
       IN  wm_call' = Some([c EXCEPT
               !.watermarked = Some(Ok(zeroed)),
               !.attack = [kind |-> "zero",
                           touched |-> Cardinality({i \in 1..n :
                                                     lo < i /\ i <= hi})]])

\* np.random.randint(-5, 5, n) draws: all -4, all 1, or mixed
NoiseDraws == {"even", "odd", "mixed"}
NoiseDraw(d, n) ==
    IF d = "even" THEN [i \in 1..n |-> 0 - 4]
    ELSE IF d = "odd" THEN [i \in 1..n |-> 1]
    ELSE Noise(0, n)

\* tampered_signal = tampered_signal + noise on the watermarked signal
AddNoise(d) ==
    /\ CanAttack
    /\ LET c == Get(wm_call)
           n == carrying(c.fp)
           noise == NoiseDraw(d, Len(Embedded.samples))
           noisy == Array([i \in 1..Len(Embedded.samples) |->
                              Embedded.samples[i] + noise[i]],
                          Embedded.itemsize)
       IN  wm_call' = Some([c EXCEPT
               !.watermarked = Some(Ok(noisy)),
               !.attack = [kind |-> "noise",
                           touched |-> Cardinality({i \in 1..n :
                                                     noise[i] /= 0})]])

\* extracted, confidence = extract_lsb_watermark(watermarked)
ExtractLsb ==
    /\ IsSome(wm_call)
    /\ IsSome(Get(wm_call).watermarked)
    /\ Get(Get(wm_call).watermarked).kind = "ok"
    /\ IsNone(Get(wm_call).extracted)
    /\ LET c == Get(wm_call)
           r == extract_lsb_watermark(Embedded)
       IN  wm_call' = Some([c EXCEPT !.extracted =
               Some([chars |-> r.chars,
                     confidence |-> confidence(r.chars, r.bit_errors)])])

WatermarkNext ==
    \/ EmbedLsb
    \/ \E lo \in {0, 8}, hi \in {4, 8, 16, 8 * MaxFpLen + Len(NullTerminator)} :
          ZeroSamples(lo, hi)
    \/ \E d \in NoiseDraws : AddNoise(d)
    \/ ExtractLsb

\* ---- the frequency-domain pair ----

MaxHexLen == 2      \* hexadecimal digits of a fingerprint handed to the pair

\* '0', '5', 'a', 'f'
HexChars == {48, 53, 97, 102}
HexFingerprints == UNION {[1..n -> HexChars] : n \in 0..MaxHexLen}

\* the running system's call: duration_sec * fs samples, and the 128
\* hexadecimal digits of a SHA-512
ScenarioSamples == 2560
ScenarioHexChars == 128
ScenarioSignal == WmSignal(ScenarioSamples, 1)
ScenarioFingerprint == [k \in 1..ScenarioHexChars |-> HexCode((k * 5 + 3) % 16)]

\* signals too short for one byte of fingerprint, and long enough
DwtSignals == {WmSignal(n, k) : n \in {FilterLen, SampleCount}, k \in {0, 1}}

DwtInit ==
    wm_call \in {Some([signal |-> signal, fp |-> fp, watermarked |-> None,
                       attack |-> NoAttack, extracted |-> None]) :
                    signal \in DwtSignals, fp \in HexFingerprints}
                \cup {Some([signal |-> ScenarioSignal,
                            fp |-> ScenarioFingerprint, watermarked |-> None,
                            attack |-> NoAttack, extracted |-> None])}

\* watermarked = embed_dwt_watermark(signal, fp)
EmbedDwt ==
    /\ IsSome(wm_call)
    /\ IsNone(Get(wm_call).watermarked)
    /\ LET c == Get(wm_call)
       IN  wm_call' = Some([c EXCEPT !.watermarked =
                               Some(embed_dwt_watermark_fx(c.signal, c.fp))])

\* match, accuracy = extract_dwt_watermark(watermarked, fp)
ExtractDwt ==
    /\ IsSome(wm_call)
    /\ IsSome(Get(wm_call).watermarked)
    /\ Get(Get(wm_call).watermarked).kind = "ok"
    /\ IsNone(Get(wm_call).extracted)
    /\ LET c == Get(wm_call)
       IN  wm_call' = Some([c EXCEPT !.extracted =
               Some(extract_dwt_watermark_fx(Embedded, c.fp))])

DwtNext ==
    \/ EmbedDwt
    \/ ExtractDwt

\* ---- the pair as the session applies, attacks and verifies it ----

\* what apply_watermarking computes from the raw signal and the fingerprint:
\* the frequency-domain embedding, then the bit-plane embedding of its result
apply_both(signal, fp) ==
    LET dwt_wm_signal == embed_dwt_watermark_fx(signal, fp)
    IN  IF dwt_wm_signal.kind /= "ok" THEN dwt_wm_signal
        ELSE LET r == embed_lsb_watermark(Get(dwt_wm_signal.value), fp)
             IN  IF IsNone(r) THEN Raise("ValueError") ELSE Ok(Get(r))

\* the event verify_integrity appends for a watermarked buffer and the
\* fingerprint it expects
verify_verdict(watermarked, expected_hash) ==
    LET lsb == extract_lsb_watermark(watermarked)
        lsb_match == lsb.chars = expected_hash
        dwt_result == extract_dwt_watermark_fx(watermarked, expected_hash)
        dwt_match == Get(dwt_result.value).match
    IN  [lsb_match |-> lsb_match, dwt_match |-> dwt_match,
         matches |-> Get(dwt_result.value).accuracy.num,
         event |-> IF overall_pass(lsb_match, dwt_match)
                   THEN "integrity_verified" ELSE "integrity_failed"]

\* the smallest signal that holds the fingerprint and its terminator
AttackSamples == 8 * ScenarioHexChars + Len(NullTerminator)

AttackSignals ==
    {WmSignal(n, k) : n \in {AttackSamples, ScenarioSamples}, k \in {1, 2}}

AttackFingerprints ==
    {ScenarioFingerprint,
     [k \in 1..ScenarioHexChars |-> HexCode((k * 11 + 6) % 16)]}

\* the value in -5..4 with the parity `bit` that is nearest to target (in
\* thousandths)
nearest_of_parity(target, bit) ==
    LET cands == {v \in (0 - 5)..4 : v % 2 = bit}
    IN  CHOOSE v \in cands :
            \A w \in cands : Abs(v * DwtUnit - target) <= Abs(w * DwtUnit - target)

\* one draw of np.random.randint(-5, 5, n): zero outside the zeroed samples;
\* inside, the samples of a waveform whose detail coefficients carry the
\* signs of the fingerprint bits, each moved to the nearest value that has
\* the fingerprint's bit as its lowest bit
crafted_noise(n, fp) ==
    LET lsb_bits == BytesBits(encode_utf8(fp)) \o NullTerminator
        watermark_bits == BytesBits(Get(fromhex(fp)))
        coeffs == wavedec(<<>> \o [i \in 1..n |-> 0])
        detail == [i \in 1..Len(coeffs[2]) |->
                      IF i > Len(watermark_bits) THEN 0
                      ELSE IF watermark_bits[i] = 1 THEN strength
                      ELSE 0 - strength]
        target == waverec([coeffs EXCEPT ![2] = detail])
    IN  [i \in 1..n |->
            IF AttackLo < i /\ i <= AttackHi
            THEN nearest_of_parity(target[i], lsb_bits[i])
            ELSE 0]

\* the draws of np.random.randint(-5, 5, n) considered: every constant one,
\* a mixed one, and the crafted one
AttackDraws ==
    {<<"const", v>> : v \in (0 - 5)..4} \cup {<<"mixed", 0>>, <<"crafted", 0>>}

attack_noise(d, n, fp) ==
    IF d[1] = "const" THEN [i \in 1..n |-> d[2]]
    ELSE IF d[1] = "mixed" THEN Noise(d[2], n)
    ELSE crafted_noise(n, fp)

AttackInit ==
    wm_call \in {Some([signal |-> signal, fp |-> fp, watermarked |-> None,
                       attack |-> NoAttack, extracted |-> None]) :
                    signal \in AttackSignals, fp \in AttackFingerprints}

\* apply_watermarking
ApplyBoth ==
    /\ IsSome(wm_call)
    /\ IsNone(Get(wm_call).watermarked)
    /\ LET c == Get(wm_call)
       IN  wm_call' = Some([c EXCEPT !.watermarked =
                               Some(apply_both(c.signal, c.fp))])

\* simulate_attack with noise draw d
AttackBoth(d) ==
    /\ CanAttack
    /\ LET c == Get(wm_call)
           noise == attack_noise(d, Len(Embedded.samples), c.fp)
       IN  wm_call' = Some([c EXCEPT
               !.watermarked = Some(Ok(tampered_signal(Embedded, noise,
                                                       default_int))),
               !.attack = [kind |-> d[1],
                           touched |-> Cardinality(
                               {i \in 1..Len(Embedded.samples) :
                                   (AttackLo < i /\ i <= AttackHi)
                                   \/ noise[i] /= 0})]])

\* verify_integrity
VerifyBoth ==
    /\ IsSome(wm_call)
    /\ IsSome(Get(wm_call).watermarked)
    /\ Get(Get(wm_call).watermarked).kind = "ok"
    /\ IsNone(Get(wm_call).extracted)
    /\ LET c == Get(wm_call)
       IN  wm_call' = Some([c EXCEPT !.extracted =
                               Some(verify_verdict(Embedded, c.fp))])

AttackNext ==
    \/ ApplyBoth
    \/ \E d \in AttackDraws : AttackBoth(d)
    \/ VerifyBoth

(* Forensic-Medical-Evidence-Security-System/forensic_evidence_system.py:
   the custody log of the medical-evidence system and the two handlers
   that write the entries of one evidence item *)

\* compute_file_hash of a file's content
compute_file_hash(content) == sha256(content)

\* derive_key_from_password: the SHA-256 of the password
derive_key_from_password(password) == sha256(password)

\* aes_gcm_encrypt under a password, and aes_gcm_decrypt: the plaintext or
\* the exception
aes_gcm_encrypt(plaintext, password) ==
    <<"gcm", derive_key_from_password(password), plaintext>>
aes_gcm_decrypt(blob, password) ==
    IF blob[1] = "gcm" /\ blob[2] = derive_key_from_password(password)
    THEN Ok(blob[3]) ELSE Raise("InvalidTag")

\* ChainOfCustodyEntry as add_entry writes it to the log
ChainOfCustodyEntry(seq, evidence_id, case_id, now, action, hash_before, hash_after) ==
    [entry_id |-> <<"COC", now, seq>>, evidence_id |-> evidence_id,
     case_id |-> case_id, timestamp |-> now, action |-> action,
     performed_by |-> "Investigator_J_Smith",
     user_role |-> "forensic_analyst",
     hash_before |-> hash_before, hash_after |-> hash_after]

\* ChainOfCustodyEntry.is_tampering_detected
is_tampering_detected(entry) ==
    /\ IsSome(entry.hash_before) /\ IsSome(entry.hash_after)
    /\ entry.action \in {"accessed", "verified", "exported"}
    /\ entry.hash_before /= entry.hash_after

\* ChainOfCustodyManager.get_entries_for_evidence
get_entries_for_evidence(log, evidence_id) ==
    SelectSeq(log, LAMBDA e : e.evidence_id = evidence_id)

\* ChainOfCustodyManager.verify_chain_integrity: (is_valid, issues), an issue
\* being its kind and the index i of the source's message
verify_chain_integrity(log, evidence_id) ==
    LET entries == get_entries_for_evidence(log, evidence_id)
        later == [i \in 1..(Len(entries) - 1) |-> i]
        each == [i \in 1..Len(entries) |-> i - 1]
        order == SelectSeq(later, LAMBDA i :
                     entries[i + 1].timestamp < entries[i].timestamp)
        continuity == SelectSeq(later, LAMBDA i :
                     /\ IsSome(entries[i].hash_after)
                     /\ IsSome(entries[i + 1].hash_before)
                     /\ entries[i].hash_after /= entries[i + 1].hash_before)
        tampering == SelectSeq(each, LAMBDA i :
                     is_tampering_detected(entries[i + 1]))
        issues == [k \in 1..Len(order) |-> <<"Timestamp order violation", order[k]>>]
                  \o [k \in 1..Len(continuity) |-> <<"Hash mismatch", continuity[k]>>]
                  \o [k \in 1..Len(tampering) |-> <<"Potential tampering", tampering[k]>>]
    IN  IF entries = <<>>
        THEN [is_valid |-> FALSE,
              issues |-> <<<<"No chain of custody entries found", 0>>>>]
        ELSE [is_valid |-> issues = <<>>, issues |-> issues]

\* the evidence files the examiner can select, the passwords typed
EvidencePaths == {"scan_a.nii", "scan_b.nii"}
Passwords == {"pw-1", "pw-2"}
MedCase == "CASE-1"

\* the files embed_case_info_in_nifti leaves next to the evidence file
marked_file(content, case_id, evidence_id, password) ==
    <<"marked", content, aes_gcm_encrypt(<<case_id, evidence_id>>, password)>>

NoMedFiles == [marked |-> None, enc |-> None, meta |-> None]

MedOp(name, outcome, evidence_id) ==
    [name |-> name, outcome |-> outcome, evidence_id |-> evidence_id]

MedInit ==
    /\ coc_log = <<>>
    /\ med_gui = [current_case_info |-> None, last_enc_bin_path |-> None]
    /\ med_disk = [p \in EvidencePaths |-> NoMedFiles]
    /\ med_tampered = FALSE
    /\ med_op = MedOp("init", "ok", None)

\* on_mark_encrypt_evidence; volume_ok tells whether the file holds a volume
\* of three dimensions
MarkEncrypt(evidence_path, password, volume_ok) ==
    /\ clock < SessionStart + MaxClock
    /\ LET evidence_id == <<"EVD", clock>>
           content == <<"nifti", evidence_path>>
           file_hash == compute_file_hash(content)
           upload_entry == ChainOfCustodyEntry(1, evidence_id, MedCase, clock,
                               "uploaded", None, Some(file_hash))
           marked == marked_file(content, MedCase, evidence_id, password)
           enc == aes_gcm_encrypt(marked, password)
           meta == [evidence_id |-> evidence_id, case_id |-> MedCase,
                    password_hash |-> derive_key_from_password(password),
                    original_hash |-> file_hash,
                    marked_hash |-> compute_file_hash(marked),
                    encrypted_hash |-> compute_file_hash(enc)]
           modified_entry == ChainOfCustodyEntry(2, evidence_id, MedCase,
                                 clock, "modified", Some(file_hash),
                                 Some(compute_file_hash(marked)))
       IN  IF volume_ok
           THEN /\ coc_log' = coc_log \o <<upload_entry, modified_entry>>
                /\ med_disk' = [med_disk EXCEPT ![evidence_path] =
                                   [marked |-> Some(marked), enc |-> Some(enc),
                                    meta |-> Some(meta)]]
                /\ med_gui' = [current_case_info |-> Some(MedCase),
                               last_enc_bin_path |-> Some(evidence_path)]
                /\ med_op' = MedOp("on_mark_encrypt_evidence", "ok",
                                   Some(evidence_id))
           ELSE /\ coc_log' = Append(coc_log, upload_entry)
                /\ med_gui' = [med_gui EXCEPT
                                  !.current_case_info = Some(MedCase)]
                /\ med_op' = MedOp("on_mark_encrypt_evidence", "error",
                                   Some(evidence_id))
                /\ UNCHANGED med_disk
    /\ clock' = clock + 1
    /\ UNCHANGED med_tampered

\* on_decrypt_verify_evidence on the file of last_enc_bin_path; manual tells
\* whether the examiner fills in the two dialogs shown when the password is
\* not the one of the metadata file
DecryptVerify(password, manual) ==
    /\ clock < SessionStart + MaxClock
    /\ IsSome(med_gui.last_enc_bin_path)
    /\ LET f == med_disk[Get(med_gui.last_enc_bin_path)]
           meta == Get(f.meta)
           known == meta.password_hash = derive_key_from_password(password)
           evidence_id == IF known THEN meta.evidence_id ELSE <<"UNKNOWN", 0>>
           case_id == IF IsSome(med_gui.current_case_info)
                      THEN Get(med_gui.current_case_info) ELSE "UNKNOWN"
           enc_hash == compute_file_hash(Get(f.enc))
           access_entry == ChainOfCustodyEntry(3, evidence_id, case_id, clock,
                               "accessed", Some(enc_hash), Some(enc_hash))
           verify_entry == ChainOfCustodyEntry(4, evidence_id, case_id, clock,
                               "verified", None, None)
           decrypted == aes_gcm_decrypt(Get(f.enc), password)
       IN  /\ IsSome(f.meta)
           /\ known \/ manual
           /\ IF decrypted.kind = "ok"
              THEN /\ coc_log' = coc_log \o <<access_entry, verify_entry>>
                   /\ med_op' = MedOp("on_decrypt_verify_evidence", "ok",
                                      Some(evidence_id))
              ELSE /\ coc_log' = Append(coc_log, access_entry)
                   /\ med_op' = MedOp("on_decrypt_verify_evidence", "error",
                                      Some(evidence_id))
    /\ clock' = clock + 1
    /\ UNCHANGED <<med_gui, med_disk, med_tampered>>

\* the encrypted evidence file is changed outside the application
ChangeEvidence(evidence_path) ==
    /\ IsSome(med_disk[evidence_path].enc)
    /\ Get(med_disk[evidence_path].enc)[1] = "gcm"
    /\ med_disk' = [med_disk EXCEPT ![evidence_path].enc =
                       Some(<<"changed", Get(med_disk[evidence_path].enc)>>)]
    /\ med_tampered' = TRUE
    /\ med_op' = MedOp("change_evidence", "ok", None)
    /\ UNCHANGED <<coc_log, med_gui, clock>>

\* a line of the log file is edited outside the application
AlterLogLine(i) ==
    /\ i \in 1..Len(coc_log)
    /\ ~med_tampered
    /\ coc_log' = [coc_log EXCEPT ![i].hash_after = Some(<<"forged">>)]
    /\ med_tampered' = TRUE
    /\ med_op' = MedOp("alter_log_line", "ok", None)
    /\ UNCHANGED <<med_gui, med_disk, clock>>

MedicalNext ==
    \/ \E evidence_path \in EvidencePaths, password \in Passwords,
          volume_ok \in BOOLEAN :
           MarkEncrypt(evidence_path, password, volume_ok)
    \/ \E password \in Passwords, manual \in BOOLEAN :
           DecryptVerify(password, manual)
    \/ \E evidence_path \in EvidencePaths : ChangeEvidence(evidence_path)
    \/ \E i \in 1..(2 * MaxClock) : AlterLogLine(i)

-----------------------------------------------------------------------------
(* Specifications *)

CryptoInit ==
    /\ enc_bundle = None
    /\ dec_result = None

Init ==
    /\ clock = SessionStart
    /\ EmsInit
    /\ SysInit
    /\ CryptoInit
    /\ MedInit
    /\ wm_call = None

\* the PFEICS session
Next == SysNext /\ UNCHANGED <<emsVars, cryptoVars, wmVars, medVars>>
Spec == Init /\ [][Next]_vars

\* the PFEICS session with the AI worker
NextAI == AiNext /\ UNCHANGED <<emsVars, cryptoVars, wmVars, medVars>>
SpecAI == Init /\ [][NextAI]_vars

\* the same session with the worker thread scheduled by the interpreter and
\* the root.after callbacks run by the Tk event loop
Worker == (AnalyzeReadRaw \/ AnalyzeCompare) /\ UNCHANGED <<emsVars, cryptoVars, wmVars, medVars>>
EventLoop == UpdateAIResults /\ UNCHANGED <<emsVars, cryptoVars, wmVars, medVars>>
SpecAILive == SpecAI /\ WF_vars(Worker) /\ WF_vars(EventLoop)

\* the PFEICS session opening edited archives
NextEdited == EditedNext /\ UNCHANGED <<emsVars, cryptoVars, wmVars, medVars>>
SpecEdited == Init /\ [][NextEdited]_vars

\* EvidenceContainer called directly
NextContainer == ContainerNext /\ UNCHANGED <<emsVars, cryptoVars, wmVars, medVars>>
SpecContainer == Init /\ [][NextContainer]_vars

\* CryptoEngine called directly
NextCrypto == CryptoNext /\ UNCHANGED <<emsVars, sysVars, clock, wmVars, medVars>>
SpecCrypto == Init /\ [][NextCrypto]_vars

\* the EMS custody chain
NextEMS == EmsNext /\ UNCHANGED <<sysVars, cryptoVars, wmVars, medVars>>
SpecEMS == Init /\ [][NextEMS]_vars

\* SignalWatermarking called directly
InitWatermark ==
    /\ clock = SessionStart
    /\ EmsInit
    /\ SysInit
    /\ CryptoInit
    /\ MedInit
    /\ WmInit
NextWatermark == WatermarkNext /\ UNCHANGED <<emsVars, sysVars, cryptoVars, clock, medVars>>
SpecWatermark == InitWatermark /\ [][NextWatermark]_vars

\* the frequency-domain pair of SignalWatermarking called directly, in a
\* session that found no earlier archive
InitDwt ==
    /\ clock = SessionStart
    /\ EmsInit
    /\ SysInit
    /\ default_int = 4
    /\ \A p \in AllPaths : IsNone(files[p])
    /\ CryptoInit
    /\ MedInit
    /\ DwtInit
NextDwt == DwtNext /\ UNCHANGED <<emsVars, sysVars, cryptoVars, clock, medVars>>
SpecDwt == InitDwt /\ [][NextDwt]_vars

\* a session long enough to take two cases one after the other from
\* acquisition to export, in a session that found no earlier archive
CaseSteps == 5

InitCases ==
    /\ clock = SessionStart + MaxClock - CaseSteps
    /\ EmsInit
    /\ SysInit
    /\ \A p \in AllPaths : IsNone(files[p])
    /\ CryptoInit
    /\ MedInit
    /\ wm_call = None

CasesNext ==
    \/ AuthenticateExaminer
    \/ \E case_id \in CaseIds, seed \in MockSeeds :
           AcquireEvidence(case_id, seed)
    \/ \E shift \in DwtShifts : ApplyWatermarking(shift)
    \/ \E f \in Paths : ExportContainer(f)

NextCases == CasesNext /\ UNCHANGED <<emsVars, cryptoVars, wmVars, medVars>>
SpecCases == InitCases /\ [][NextCases]_vars

\* the pair as the session applies, attacks and verifies it, in a session
\* that found no earlier archive
InitAttack ==
    /\ clock = SessionStart
    /\ EmsInit
    /\ SysInit
    /\ default_int = 4
    /\ \A p \in AllPaths : IsNone(files[p])
    /\ CryptoInit
    /\ MedInit
    /\ AttackInit
NextAttack == AttackNext /\ UNCHANGED <<emsVars, sysVars, cryptoVars, clock, medVars>>
SpecAttack == InitAttack /\ [][NextAttack]_vars

\* the medical-evidence system
InitMedical ==
    /\ clock = SessionStart
    /\ EmsInit
    /\ SysInit
    /\ default_int = 4
    /\ \A p \in AllPaths : IsNone(files[p])
    /\ CryptoInit
    /\ wm_call = None
    /\ MedInit
NextMedical ==
    MedicalNext /\ UNCHANGED <<emsVars, sysVars, cryptoVars, wmVars>>
SpecMedical == InitMedical /\ [][NextMedical]_vars

-----------------------------------------------------------------------------
(* The claims *)

\* the events of the ledger were all appended in this session by handlers
\* other than import_container
SessionLedger ==
    \A i \in 1..Len(chain_events) :
        /\ chain_events[i].timestamp >= SessionStart
        /\ chain_events[i].event_type /= "import_performed"

\* C1: in a session ledger built by the appending handlers, event 0 carries
\* the genesis value as previous_hash and every later event carries the hash
\* compute_hash() gives for the stored event before it.
C1_LedgerHashLinked ==
    SessionLedger =>
        \A i \in 1..Len(chain_events) :
            chain_events[i].previous_hash =
                IF i = 1 THEN GenesisHash
                ELSE compute_hash(chain_events[i - 1])

\* C2: a non-empty custody chain verifies exactly when no entry was altered,
\* and after one field of entry i was changed every break that is reported is
\* at index i or later.
C2_VerifyIffUnaltered ==
    custody_chain /= <<>> =>
        LET v == verify_custody_chain(custody_chain)
        IN  /\ v.is_valid <=> IsNone(altered)
            /\ IsSome(altered) =>
                  /\ v.errors /= <<>>
                  /\ \A k \in 1..Len(v.errors) : v.errors[k] >= Get(altered)

\* the events of the ledger before a step are still in place after it
PrefixKept ==
    /\ Len(chain_events') >= Len(chain_events)
    /\ \A i \in 1..Len(chain_events) : chain_events'[i] = chain_events[i]

\* C3 as stated: no step of any handler, import_container included, removes
\* or changes an event that is in the session ledger.
C3_AppendOnlyAlways == [][PrefixKept]_vars

\* C3: every step of a handler other than import_container leaves each event
\* of the session ledger at its position with its fields unchanged.
C3_AppendOnlyExceptImport ==
    [][last_op'.name /= "import_container" => PrefixKept]_vars

\* a handler appended to a ledger that already held events
C3_Witness ==
    /\ last_op.name = "export_container"
    /\ last_op.outcome = "ok"
    /\ Len(chain_events) >= 3

\* C4: once a container holds raw evidence, no step changes the raw buffer of
\* that same container.
C4_RawWriteOnce ==
    [][(/\ IsSome(container) /\ IsSome(container')
        /\ Get(container').cid = Get(container).cid
        /\ IsSome(Get(container).raw_evidence))
       => Get(container').raw_evidence = Get(container).raw_evidence]_vars

\* C5: once a container instance was exported, no step changes its
\* watermarked buffer and no step exports it again.
C5_ExportedIsTerminal ==
    [][(/\ IsSome(container) /\ IsSome(container')
        /\ Get(container).cid \in exported
        /\ Get(container').cid = Get(container).cid)
       => /\ Get(container').watermarked_evidence =
                Get(container).watermarked_evidence
          /\ ~(last_op'.name = "export_container" /\ last_op'.outcome = "ok")
      ]_vars

\* C6: every successful acquire (with its encryption), watermark, verify,
\* export and import step keeps the ledger it found and appends one entry per
\* transition, the first of them linked to the chain tip it found.
C6_OneEntryPerTransition ==
    [][(/\ last_op'.outcome = "ok"
        /\ last_op'.name \in {"acquire_evidence", "apply_watermarking",
                              "verify_integrity", "export_container",
                              "import_container"})
       => /\ PrefixKept
          /\ Len(chain_events') = Len(chain_events)
                 + (IF last_op'.name = "acquire_evidence" THEN 2 ELSE 1)
          /\ chain_events'[Len(chain_events) + 1].previous_hash = chain_hash
      ]_vars

\* C7: a step whose operation failed leaves the ledger at its length.
C7_NoEntryForFailedStep ==
    [][last_op'.outcome = "error"
       => Len(chain_events') = Len(chain_events)]_vars

\* C8: decrypting an undamaged bundle with the associated data it was
\* encrypted under returns the plaintext; with other associated data, or a
\* damaged ciphertext or tag, it returns nothing and raises IntegrityError.
C8_AeadRoundTrip ==
    IsSome(dec_result) =>
        LET e == Get(enc_bundle)
            d == Get(dec_result)
        IN  IF d.metadata = e.metadata /\ e.corrupted = "none"
            THEN d.result = Ok(e.plaintext)
            ELSE d.result.kind = "IntegrityError" /\ IsNone(d.result.value)

\* C9: after importing an archive that Export Container wrote, the raw and
\* the watermarked buffer have the length and the bytes they had when the
\* archive was written, and the ledger has as many events, of the same kinds
\* and with the same recomputed hashes.
C9_ExportImportRoundTrip ==
    (/\ last_op.name = "import_container" /\ last_op.outcome = "ok"
     /\ last_op.archive = "intact" /\ last_op.path \in Paths
     /\ IsSome(origin[last_op.path]))
    => LET o == Get(origin[last_op.path])
           c == Get(container)
       IN  /\ Len(Get(c.raw_evidence).samples) = Len(Get(o.raw).samples)
           /\ tobytes(Get(c.raw_evidence)) = tobytes(Get(o.raw))
           /\ IsSome(c.watermarked_evidence)
           /\ Len(Get(c.watermarked_evidence).samples) = Len(Get(o.wm).samples)
           /\ tobytes(Get(c.watermarked_evidence)) = tobytes(Get(o.wm))
           /\ Len(chain_events) = Len(o.ledger)
           /\ \A i \in 1..Len(o.ledger) :
                  /\ chain_events[i].event_type = o.ledger[i].event_type
                  /\ compute_hash(chain_events[i]) = compute_hash(o.ledger[i])

\* C10: importing an archive whose ledger blob is absent, fails
\* authentication or is not an event list succeeds, restores the raw buffer
\* and leaves a ledger of one fresh import_performed event.
C10_ImportToleratesBadLedger ==
    (/\ last_op.name = "import_container"
     /\ last_op.archive \in {"drop_chain", "corrupt_chain", "garble_chain"})
    => /\ last_op.outcome = "ok"
       /\ HasRaw
       /\ Len(chain_events) = 1
       /\ chain_events[1].event_type = "import_performed"

\* C11: a failing import_container leaves the session's container, ledger
\* and chain tip exactly as they were before the call.
C11_FailedImportChangesNothing ==
    [][(last_op'.name = "import_container" /\ last_op'.outcome = "error")
       => UNCHANGED <<container, chain_events, chain_hash>>]_vars

\* a round trip: embed_lsb_watermark did not raise, nothing touched the
\* signal, extract_lsb_watermark has returned
LsbRoundTrip ==
    /\ IsSome(wm_call)
    /\ IsSome(Get(wm_call).watermarked)
    /\ Get(Get(wm_call).watermarked).kind = "ok"
    /\ Get(wm_call).attack.kind = "none"
    /\ IsSome(Get(wm_call).extracted)

\* the signal has at least 8 * len(fp bytes) + 32 samples
LsbFits ==
    Len(Get(wm_call).signal.samples) >= carrying(Get(wm_call).fp)

Printable(c) == (32 <= c /\ c <= 126) \/ c \in {9, 10, 13}

LsbReturnsFp ==
    /\ Get(Get(wm_call).extracted).chars = Get(wm_call).fp
    /\ Get(Get(wm_call).extracted).confidence.num
         = Get(Get(wm_call).extracted).confidence.den

\* C12 as stated: for any fingerprint and any signal with at least
\* 8 * len(fp bytes) + 32 samples, embedding succeeds and extraction
\* returns exactly the fingerprint with confidence 1.0.
C12_LsbRoundTripAny ==
    (IsSome(wm_call) /\ LsbFits /\ IsSome(Get(wm_call).watermarked))
    => /\ Get(Get(wm_call).watermarked).kind = "ok"
       /\ LsbRoundTrip => LsbReturnsFp

\* C12: for a fingerprint of at most max_bytes characters, all printable
\* ASCII or tab / LF / CR, and any signal with at least 8 * len(fp bytes) + 32
\* samples, embedding succeeds and extraction returns exactly the fingerprint
\* with confidence 1.0.
C12_LsbRoundTripPrintable ==
    (/\ IsSome(wm_call) /\ LsbFits /\ IsSome(Get(wm_call).watermarked)
     /\ Len(Get(wm_call).fp) <= max_bytes
     /\ \A i \in 1..Len(Get(wm_call).fp) : Printable(Get(wm_call).fp[i]))
    => /\ Get(Get(wm_call).watermarked).kind = "ok"
       /\ LsbRoundTrip => LsbReturnsFp

\* a printable fingerprint of the largest length came back from a signal of
\* negative samples with exactly enough of them
C12_Witness ==
    /\ LsbRoundTrip
    /\ Len(Get(wm_call).fp) = MaxFpLen
    /\ \A i \in 1..MaxFpLen : Printable(Get(wm_call).fp[i])
    /\ Len(Get(wm_call).signal.samples) = carrying(Get(wm_call).fp)
    /\ Get(wm_call).signal.samples[1] < 0
    /\ LsbReturnsFp

\* the watermarked signal was attacked on at least 10% of the samples that
\* carry watermark bits, and then read by extract_lsb_watermark
LsbAttackedAndRead ==
    /\ IsSome(wm_call)
    /\ Get(wm_call).attack.kind /= "none"
    /\ 10 * Get(wm_call).attack.touched >= carrying(Get(wm_call).fp)
    /\ IsSome(Get(wm_call).extracted)

\* C13: after zeroing, or adding noise to, at least 10% of the samples that
\* carry watermark bits, extract_lsb_watermark returns a confidence strictly
\* below 1.0.
C13_TamperLowersConfidence ==
    LsbAttackedAndRead
    => Get(Get(wm_call).extracted).confidence.num
         < Get(Get(wm_call).extracted).confidence.den

\* a frequency round trip: embed_dwt_watermark returned a signal and
\* extract_dwt_watermark has read that signal, unmodified, with the same
\* fingerprint
DwtRoundTrip ==
    /\ IsSome(wm_call)
    /\ IsSome(Get(wm_call).watermarked)
    /\ Get(Get(wm_call).watermarked).kind = "ok"
    /\ Get(wm_call).attack.kind = "none"
    /\ IsSome(Get(wm_call).extracted)

DwtResult == Get(Get(Get(wm_call).extracted).value)

\* C14: extract_dwt_watermark(embed_dwt_watermark(signal, fp), fp) reports
\* match = true with bit accuracy exactly 1.0 on the unmodified output.
C14_DwtRoundTrip ==
    DwtRoundTrip
    => /\ Get(Get(wm_call).extracted).kind = "ok"
       /\ DwtResult.match
       /\ DwtResult.accuracy.num = DwtResult.accuracy.den

\* the concrete scenario: a 2,560-sample signal and a 128-digit fingerprint
\* went through embed_dwt_watermark
DwtScenario ==
    /\ IsSome(wm_call)
    /\ Len(Get(wm_call).signal.samples) = ScenarioSamples
    /\ Len(Get(wm_call).fp) = ScenarioHexChars
    /\ IsSome(Get(wm_call).watermarked)

\* the bits the spec counts for a fingerprint: eight per character
FingerprintBits == 8 * Len(Get(wm_call).fp)

\* C15: in the concrete scenario embed_dwt_watermark writes one coefficient
\* sign for each of the 1,024 fingerprint bits into a band of at least 1,024
\* coefficients, extract_dwt_watermark compares all 1,024 bits, and the
\* capacity error is raised exactly when the band has fewer coefficients than
\* the fingerprint has bits.
C15_DwtEncodesEveryBit ==
    DwtScenario
    => LET band == Len(wavedec(as_float(Get(wm_call).signal))[2])
           written == Len(BytesBits(Get(fromhex(Get(wm_call).fp))))
           raised == Get(Get(wm_call).watermarked).kind
                       = "ValueError: Signal too short for DWT watermarking"
       IN  /\ raised <=> band < FingerprintBits
           /\ ~raised => /\ written = FingerprintBits
                         /\ band >= FingerprintBits
           /\ IsSome(Get(wm_call).extracted)
                => DwtResult.compared = FingerprintBits

\* the verdict of the last ledger event, and the number of matching
\* frequency bits it records
VerdictEvent == Last(chain_events)
VerdictMatches ==
    IF VerdictEvent.event_type = "integrity_verified"
    THEN VerdictEvent.event_data.data[2][2]
    ELSE VerdictEvent.event_data.data[3][2]

UnsignedEvent(e) == e.timestamp >= SessionStart /\ IsNone(e.signature)

\* the event data says that the event is unsigned: under a key of its own,
\* or as a flag among the values the handler logged
RecordsUnsigned(e) ==
    \/ "unsigned" \in DOMAIN e.event_data
    \/ \E k \in 1..Len(e.event_data.data) :
           e.event_data.data[k] = <<"unsigned", TRUE>>

\* acquisition is open to a session that has no signing key
AcquisitionOpenWithoutKey ==
    (IsNone(examiner_private_key) /\ clock < SessionStart + MaxClock)
    => ENABLED (\E case_id \in CaseIds, seed \in MockSeeds :
                   AcquireEvidence(case_id, seed))

UnsignedEventsRecorded ==
    \A i \in 1..Len(chain_events) :
        UnsignedEvent(chain_events[i]) => RecordsUnsigned(chain_events[i])

\* C17: without a signing key the pipeline is not blocked (acquisition
\* proceeds), and every event appended without a signature records in its
\* event data that it is unsigned.
C17_UnsignedPipelineProceeds ==
    /\ AcquisitionOpenWithoutKey
    /\ UnsignedEventsRecorded

\* the event as the ledger stores it, serialized with only the signature
\* field left out
StoredWithoutSignature(e) ==
    [event_id |-> e.event_id, event_type |-> e.event_type,
     timestamp |-> e.timestamp, examiner_id |-> e.examiner_id,
     description |-> e.description, previous_hash |-> e.previous_hash,
     event_data |-> e.event_data]

\* the key that made a signature
SignerOf(signature) == signature[2]

\* C18: for every signed event of the ledger the stored signature verifies,
\* under the signer's public key, against the serialization of the event as
\* stored with only the signature field excluded.
C18_StoredSignatureVerifies ==
    \A i \in 1..Len(chain_events) :
        IsSome(chain_events[i].signature)
        => verify_signature(StoredWithoutSignature(chain_events[i]),
                            Get(chain_events[i].signature),
                            SignerOf(Get(chain_events[i].signature)))

\* what a party holding only archive a can decrypt of its member b: the
\* key is read from the member itself, the associated data from the manifest
OpensWithArchiveAlone(a, b, aad) ==
    /\ IsSome(b)
    /\ "key" \in DOMAIN Get(b)
    /\ decrypt_data_gcm(Get(b), aad).kind = "ok"

\* C19: no serialized object written by an export holds both a ciphertext and
\* the key that decrypts it, so that the archive alone opens neither the raw
\* signal, nor the watermarked signal, nor the ledger.
C19_KeyNotWithCiphertext ==
    (/\ last_op.name = "export_container"
     /\ last_op.outcome = "ok"
     /\ IsSome(files[last_op.path]))
    => LET a == Get(files[last_op.path])
           meta == Get(a.manifest).case_metadata
       IN  /\ ~OpensWithArchiveAlone(a, a.raw, to_canonical_string(meta))
           /\ ~OpensWithArchiveAlone(a, a.wm, to_canonical_string(meta))
           /\ ~OpensWithArchiveAlone(a, a.chain, <<meta.case_id>>)

\* the steps of an AI analysis: the handler, the worker thread, the callback
AiStepNames == {"run_ai_analysis", "analyze", "_update_ai_results"}

\* C20: AI analysis cannot influence evidence state: no step of an analysis,
\* whenever it runs and whatever it returns, changes the ledger, the chain
\* tip or the container with its watermarked buffer, so that two runs which
\* differ only in the AI analysis have the same ledger and export the same
\* container.
C20_AiLeavesEvidenceAlone ==
    [][last_op'.name \in AiStepNames
       => UNCHANGED <<chain_events, chain_hash, container>>]_vars

\* the kinds of event that record an operation on a container (the examiner's
\* authentication is an event of the session)
ContainerEventTypes == ChainEventType \ {"examiner_authenticated"}

\* the ledger serialized into archive a
ArchiveLedger(a) ==
    decrypt_data_gcm(Get(a.chain),
                     <<Get(a.manifest).case_metadata.case_id>>).value[1][2]

\* event e of archive a records an operation that was performed before the
\* evidence of the archive's container was acquired
OfEarlierContainer(a, e) ==
    /\ e.event_type \in ContainerEventTypes
    /\ e.timestamp < Get(a.manifest).case_metadata.acquisition_timestamp

\* C21: the ledger in the archive of a container holds only events of
\* operations on that container: after a second acquisition in the session,
\* no event of the exported ledger belongs to the container acquired first.
C21_ArchiveLedgerOwnEventsOnly ==
    \A f \in Paths :
        (IsSome(files[f]) /\ IsSome(Get(files[f]).manifest))
        => \A i \in 1..Len(ArchiveLedger(Get(files[f]))) :
               ~OfEarlierContainer(Get(files[f]),
                                   ArchiveLedger(Get(files[f]))[i])

\* simulate_attack replaced the buffer and verify_integrity ran on it
AttackedAndVerified ==
    /\ IsSome(wm_call)
    /\ Get(wm_call).attack.kind /= "none"
    /\ IsSome(Get(wm_call).extracted)

\* C22: on a signal of at least 800 samples with a fingerprint of 128
\* hexadecimal digits, verify_integrity after simulate_attack logs
\* integrity_failed, never integrity_verified, whatever values in -5..4 the
\* attack drew.
C22_AttackedNeverVerifies ==
    AttackedAndVerified
    => Get(Get(wm_call).extracted).event = "integrity_failed"

\* Decrypt & Verify completed on the evidence item that Mark & Encrypt
\* produced, and nothing was changed outside the application
MarkedThenVerified ==
    /\ med_op.name = "on_decrypt_verify_evidence"
    /\ med_op.outcome = "ok"
    /\ ~med_tampered

\* C23: after Mark & Encrypt and Decrypt & Verify on one evidence item, with
\* no entry altered and the evidence not changed between two logged actions,
\* verify_chain_integrity(evidence_id) returns (True, []).
C23_UntamperedLogVerifies ==
    MarkedThenVerified
    => verify_chain_integrity(coc_log, Get(med_op.evidence_id))
           = [is_valid |-> TRUE, issues |-> <<>>]

\* C24: an export requested while the container has no watermarked buffer
\* is rejected: no archive file is created or overwritten, the container's
\* copy of the ledger is unchanged and no container_created event is
\* appended.
C24_ExportNeedsWatermarked ==
    [][(/\ last_op'.name = "export_container"
        /\ IsSome(container)
        /\ IsNone(Get(container).watermarked_evidence))
       => /\ files' = files
          /\ Get(container').chain = Get(container).chain
          /\ chain_events' = chain_events]_vars

\* the operations that work on a container that is already acquired
RawReaders == {"apply_watermarking", "verify_integrity", "simulate_attack",
               "run_ai_analysis", "analyze", "_update_ai_results",
               "export_container", "generate_signed_report",
               "trigger_email_workflow"}

\* C25: watermarking, verification, attack, AI analysis, export, report and
\* email steps never change the raw buffer of a container that has one (so
\* its SHA-512 stays the same); they work on copies.
C25_RawNeverModified ==
    [][(/\ last_op'.name \in RawReaders
        /\ IsSome(container)
        /\ IsSome(Get(container).raw_evidence))
       => /\ IsSome(container')
          /\ Get(container').cid = Get(container).cid
          /\ Get(container').raw_evidence = Get(container).raw_evidence]_vars

\* an attacked container: the watermarked buffer was rewritten twice and
\* differs from the raw buffer kept beside it
C25_Witness ==
    /\ last_op.name = "simulate_attack"
    /\ IsSome(container)
    /\ IsSome(Get(container).raw_evidence)
    /\ IsSome(Get(container).watermarked_evidence)
    /\ Get(container).watermarked_evidence /= Get(container).raw_evidence

\* C26: every archive written by export_container or by the email workflow
\* carries the session ledger as it was when the archive was written (the
\* same events in the same order, none twice), and its manifest's
\* chain_length is the length of that ledger.
C26_ArchiveLedgerIsSessionLedger ==
    [][\A f \in AllPaths :
          (/\ files'[f] /= files[f]
           /\ IsSome(files'[f])
           /\ IsSome(Get(files'[f]).chain))
          => /\ ArchiveLedger(Get(files'[f])) = chain_events
             /\ Get(Get(files'[f]).manifest).chain_length
                    = Len(chain_events)]_vars

\* C27: importing an archive without chain_of_custody.enc into a session
\* that already logged events leaves a ledger of exactly one import_performed
\* event, numbered 0 and linked to the genesis value rather than to the tip
\* of the events logged before the import.
C27_FallbackImportStartsAtGenesis ==
    [][(/\ last_op'.name = "import_container"
        /\ last_op'.outcome = "ok"
        /\ last_op'.archive = "drop_chain"
        /\ Len(chain_events) > 0)
       => /\ Len(chain_events') = 1
          /\ chain_events'[1].event_type = "import_performed"
          /\ chain_events'[1].event_id = 0
          /\ chain_events'[1].previous_hash = GenesisHash]_vars

\* C28: whenever the ledger is not empty, the session chain tip is the hash
\* recorded in the last event's event_data['event_hash'].
C28_TipIsRecordedHash ==
    Len(chain_events) > 0
        => Some(chain_hash) = Last(chain_events).event_data.event_hash

\* analyses in flight: the worker thread, and callbacks waiting in the event
\* loop
InFlight == (IF ai_thread.pc /= "idle" THEN 1 ELSE 0) + Len(after_queue)

\* the ai_analysis_run events of a ledger
AiRuns(events) ==
    Cardinality({i \in 1..Len(events) : events[i].event_type = "ai_analysis_run"})

\* C29: at most one analysis is in flight, and exactly while the busy flag
\* is set; the ledger gains one ai_analysis_run event exactly on the step
\* that clears the flag; and with the worker thread and the event loop
\* scheduled fairly every started analysis gets there, whether it succeeded
\* or raised.
C29_OneAnalysisAndItFinishes ==
    /\ [](InFlight = IF ai_analyzing THEN 1 ELSE 0)
    /\ [][last_op'.name /= "import_container"
          => AiRuns(chain_events') = AiRuns(chain_events)
                 + (IF ai_analyzing /\ ~ai_analyzing' THEN 1 ELSE 0)]_vars
    /\ (ai_analyzing ~> ~ai_analyzing)

\* an analysis that raised has finished: the flag is clear again and its
\* event is the last of the ledger
C29_Witness ==
    /\ last_op.name = "_update_ai_results"
    /\ last_op.outcome = "error"
    /\ ~ai_analyzing
    /\ InFlight = 0
    /\ Last(chain_events).event_type = "ai_analysis_run"

\* C30: from the moment the worker has read the raw buffer until its
\* ai_analysis_run event is appended, the container it read from stays the
\* current one; in particular the raw buffer it compares is the raw buffer of
\* the container whose watermarked buffer it reads.
C30_AnalysisOfOneContainer ==
    /\ [][(ai_thread.pc = "analysed" /\ ai_thread'.pc = "idle")
          => ai_thread.raw = Get(container).raw_evidence]_vars
    /\ [][(ai_thread.pc = "analysed" \/ after_queue /= <<>>)
          => /\ IsSome(container')
             /\ Get(container').cid = Get(container).cid]_vars

====
